---------------------------- MODULE Spec2Model ----------------------------
(***************************************************************************)
(* Verification model of the DZKP proof verifier of the IPA repository     *)
(* (ipa-core/src/protocol/ipa_prf/malicious_security/verifier.rs).         *)
(*                                                                         *)
(* ProofVerifier<F, λ> is generic in the prime field F and the block size  *)
(* λ.  The model carries both as state fixed at construction (F is the     *)
(* field modulus, lambda the block size).  Field elements are the          *)
(* canonical integers 0..F-1.  Sequences are 1-based: the canonical point  *)
(* x = i of a Lagrange table is index i+1 of a sequence.                   *)
(*                                                                         *)
(* The field, the Lagrange tables and the prover live in files of the      *)
(* repository that are not part of the sources at hand (ff, lagrange.rs,   *)
(* prover.rs); they are modelled from the specification (sections 3, 4.1   *)
(* and 4.2).                                                               *)
(***************************************************************************)
EXTENDS Integers, Sequences, FiniteSets, TLC

VARIABLES
    F,          \* modulus of the prime field the verifiers are instantiated with
    lambda,     \* block size λ
    pv,         \* pv[i]: the ProofVerifier of instance i: [u_or_v, out_share]
    ret,        \* ret[i]: what the last call on instance i returned
    call,       \* the arguments of the last call (and the states it was made on)
    rounds,     \* number of verify_proof rounds made so far
    prover,     \* the prover's (undistributed) factor sequences and claim
    lagrange,   \* the Lagrange denominator and table under construction or use
    transcript, \* the orchestration layer's record of a run, oldest entry first
    fixture,    \* the secret shared by the test fixture and the shares made
    transport,  \* the transport commands and the receivers of their callbacks
    generator,  \* the EventGenerator: its config, in_flight and what it emitted
    bench       \* the ipa_bench command and the number of events it requests

vars == <<F, lambda, pv, ret, call, rounds, prover,
          lagrange, transcript, fixture, transport, generator, bench>>

\* the state outside the verifiers and the prover
others == <<lagrange, transcript, fixture, transport, generator, bench>>

---------------------------------------------------------------------------
(* Bounds of the model *)

\* the largest number of chunks of an initial verifier state of the small
\* instantiation
MaxChunks == 3

---------------------------------------------------------------------------
(* Field arithmetic: F: PrimeField, elements 0..p-1 *)

\* a function on 1..n as the array of its values (every element computed once)
Array(f) == f \o <<>>

Elems(p) == 0 .. (p - 1)

ZERO == 0

ONE == 1

FAdd(p, a, b) == (a + b) % p

FSub(p, a, b) == (a - b) % p

FMul(p, a, b) == (a * b) % p

\* F::try_from(x) of an integer that names a canonical point
FFrom(p, x) == x % p

\* the multiplicative inverse of a non-zero element
FInv(p, a) == CHOOSE x \in Elems(p) : (a * x) % p = 1

Invertible(p, a) == \E x \in Elems(p) : (a * x) % p = 1

---------------------------------------------------------------------------
(* Lagrange interpolation over the canonical points 0..N-1 *)

RECURSIVE ProdDiff(_, _, _, _, _)
\* the product of (x - j) over the canonical points j in from..N-1, j # i
ProdDiff(p, x, i, N, from) ==
    IF from >= N THEN ONE
    ELSE FMul(p,
              IF from = i THEN ONE ELSE FSub(p, x, FFrom(p, from)),
              ProdDiff(p, x, i, N, from + 1))

\* CanonicalLagrangeDenominator::<F, N>::new(): for each canonical index i,
\* the inverse of the product of (point_i - point_j), j # i
CanonicalLagrangeDenominator(p, N) ==
    Array([k \in 1..N |-> FInv(p, ProdDiff(p, FFrom(p, k - 1), k - 1, N, 0))])

\* mutant: the construction also refuses a table of as many points as the
\* field has elements
DenominatorExists_FewerThanField(p, N) ==
    /\ N < p
    /\ \A k \in 1..N : Invertible(p, ProdDiff(p, FFrom(p, k - 1), k - 1, N, 0))

\* the construction succeeds iff every such product is invertible
DenominatorExists(p, N) ==
    \A k \in 1..N : Invertible(p, ProdDiff(p, FFrom(p, k - 1), k - 1, N, 0))

\* the error kinds of the Lagrange component
ConfigurationError == "ConfigurationError"

LengthMismatch == "LengthMismatch"

\* mutant: the numerator taken over every canonical point, its own included
LagrangeTable_AllPoints(p, N, denominator, r) ==
    Array([k \in 1..N |-> FMul(p, ProdDiff(p, r, N, N, 0), denominator[k])])

\* LagrangeTable::<F, N, U1>::new(&denominator, &r): the coefficients l_i(r)
LagrangeTable(p, N, denominator, r) ==
    Array([k \in 1..N |-> FMul(p, ProdDiff(p, r, k - 1, N, 0), denominator[k])])

RECURSIVE DotFrom(_, _, _, _)
DotFrom(p, a, b, k) ==
    IF k > Len(a) THEN ZERO
    ELSE FAdd(p, FMul(p, a[k], b[k]), DotFrom(p, a, b, k + 1))

\* LagrangeTable::eval(values)[0]: the coefficients applied to the values
LagrangeEval(p, table, values) == DotFrom(p, table, values, 1)

\* mutant: eval accepts an input that is longer than the table
EvalLengthOk_AtLeast(table, values) == Len(values) >= Len(table)

\* eval accepts an input of exactly the table's size
EvalLengthOk(table, values) == Len(values) = Len(table)

---------------------------------------------------------------------------
(* ProofVerifier *)

\* the sizes of the proofs: TwoNMinusOne<λ> and TwoNPlusOne<λ>
TwoNMinusOne(n) == 2 * n - 1

TwoNPlusOne(n) == 2 * n + 1

\* ProofVerifier::new(u_or_v, out_share)
ProofVerifierNew(u_or_v, out_share) ==
    [u_or_v |-> u_or_v, out_share |-> out_share]

\* mutant: the table of g built over the points 1..2λ-1 instead of 0..2λ-2
GRShare_PointsFromOne(p, n, zkp, r) ==
    LET denominator_g == CanonicalLagrangeDenominator(p, TwoNMinusOne(n))
        lagrange_table_g ==
            LagrangeTable(p, TwoNMinusOne(n), denominator_g, FSub(p, r, ONE))
    IN  LagrangeEval(p, lagrange_table_g, zkp)

\* let g_r_share = lagrange_table_g.eval(&zkp.g)[0];
GRShare(p, n, zkp, r) ==
    LET denominator_g == CanonicalLagrangeDenominator(p, TwoNMinusOne(n))
        lagrange_table_g == LagrangeTable(p, TwoNMinusOne(n), denominator_g, r)
    IN  LagrangeEval(p, lagrange_table_g, zkp)

RECURSIVE SumShareFrom(_, _, _, _)
SumShareFrom(p, n, zkp, i) ==
    IF i >= n THEN ZERO ELSE FAdd(p, zkp[i + 1], SumShareFrom(p, n, zkp, i + 1))

\* mutant: the sum taken over every entry of the proof
SumShare_AllEntries(p, n, zkp) == SumShareFrom(p, Len(zkp), zkp, 0)

\* mutant: the fold started at the second entry
SumShare_SkipsFirst(p, n, zkp) == SumShareFrom(p, n, zkp, 1)

\* mutant: the fold taken over 0..=λ, one entry past the first λ
SumShare_ThroughLambda(p, n, zkp) == SumShareFrom(p, n + 1, zkp, 0)

\* let sum_share = (0..λ::USIZE).fold(F::ZERO, |acc, i| acc + zkp.g[i]);
SumShare(p, n, zkp) == SumShareFrom(p, n, zkp, 0)

\* mutant: the subtraction reversed
BShare_Reversed(p, n, zkp, out_share) ==
    FSub(p, out_share, SumShareFrom(p, n, zkp, 0))

\* let b_share = sum_share - out_share;
BShare(p, n, zkp, out_share) == FSub(p, SumShare(p, n, zkp), out_share)

Min(a, b) == IF a <= b THEN a ELSE b

\* mutant: the collapsed elements written from the last position backwards
NewUOrV_FillsFromEnd(p, n, table, iter) ==
    Array([i \in 1..n |-> IF n + 1 - i <= Len(iter)
                          THEN LagrangeEval(p, table, iter[n + 1 - i])
                          ELSE ZERO])

\* mutant: the chunk is filled up with ones instead of zeros
NewUOrV_PadsWithOne(p, n, table, iter) ==
    Array([i \in 1..n |-> IF i <= Len(iter) THEN LagrangeEval(p, table, iter[i])
                          ELSE ONE])

\* one pass of the body of the while loop: a chunk of zeros, filled with the
\* evaluations of the next (at most λ) polynomials of the iterator
NewUOrV(p, n, table, iter) ==
    Array([i \in 1..n |-> IF i <= Len(iter) THEN LagrangeEval(p, table, iter[i])
                          ELSE ZERO])

RECURSIVE CompressLoop(_, _, _, _, _)
\* while let Some(polynomial) = u_or_v_iterator.next() { ... push(new_u_or_v) }
CompressLoop(p, n, table, iter, new_u_or_v_vec) ==
    IF iter = <<>> THEN new_u_or_v_vec
    ELSE LET taken == Min(n, Len(iter))
         IN  CompressLoop(p, n, table,
                          SubSeq(iter, taken + 1, Len(iter)),
                          Append(new_u_or_v_vec,
                                 NewUOrV(p, n, table, SubSeq(iter, 1, taken))))

\* mutant: an incomplete trailing group is dropped
Compress_DropsTail(p, n, u_or_v, r) ==
    LET denominator_p_or_q == CanonicalLagrangeDenominator(p, n)
        lagrange_table_p_or_q_r == LagrangeTable(p, n, denominator_p_or_q, r)
    IN  CompressLoop(p, n, lagrange_table_p_or_q_r,
                     SubSeq(u_or_v, 1, (Len(u_or_v) \div n) * n), <<>>)

\* mutant: a trailing chunk of zeros is pushed after the loop, also when no
\* polynomial was left for it
Compress_ExtraTrailingChunk(p, n, u_or_v, r) ==
    LET denominator_p_or_q == CanonicalLagrangeDenominator(p, n)
        lagrange_table_p_or_q_r == LagrangeTable(p, n, denominator_p_or_q, r)
    IN  Append(CompressLoop(p, n, lagrange_table_p_or_q_r, u_or_v, <<>>),
               NewUOrV(p, n, lagrange_table_p_or_q_r, <<>>))

\* the new chunk sequence: every chunk interpolated at the x coordinate r
Compress(p, n, u_or_v, r) ==
    LET denominator_p_or_q == CanonicalLagrangeDenominator(p, n)
        lagrange_table_p_or_q_r == LagrangeTable(p, n, denominator_p_or_q, r)
    IN  CompressLoop(p, n, lagrange_table_p_or_q_r, u_or_v, <<>>)

\* mutant: the new state is given the sum over the proof instead of the
\* proof evaluated at r
verify_proof_OutShareIsSum(p, n, u_or_v, out_share, zkp, r) ==
    [b_share |-> BShare(p, n, zkp, out_share),
     pv      |-> [u_or_v    |-> Compress(p, n, u_or_v, r),
                  out_share |-> SumShare(p, n, zkp)]]

\* mutant: the out_share left as it was instead of replaced by g_r_share
verify_proof_KeepsOutShare(p, n, u_or_v, out_share, zkp, r) ==
    [b_share |-> BShare(p, n, zkp, out_share),
     pv      |-> [u_or_v    |-> Compress(p, n, u_or_v, r),
                  out_share |-> out_share]]

\* ProofVerifier::verify_proof(u_or_v_iterator, out_share, zkp, r) -> (F, Self)
verify_proof(p, n, u_or_v, out_share, zkp, r) ==
    [b_share |-> BShare(p, n, zkp, out_share),
     pv      |-> [u_or_v    |-> Compress(p, n, u_or_v, r),
                  out_share |-> GRShare(p, n, zkp, r)]]

\* mutant: the assertion accepts any state that has a first chunk
FinalAssertion_AtLeastOne(self) == Len(self.u_or_v) >= 1

\* assert_eq!(self.u_or_v.len(), 1usize);
FinalAssertion(self) == Len(self.u_or_v) = 1

\* mutant: the masking value appended after the chunk instead of at x = 0
PorQExtrapolated_MaskLast(p, n, self, r, p_or_q_0) ==
    LET denominator == CanonicalLagrangeDenominator(p, n + 1)
        lagrange_table == LagrangeTable(p, n + 1, denominator, r)
        p_or_q == self.u_or_v[1] \o <<p_or_q_0>>
    IN  LagrangeEval(p, lagrange_table, p_or_q)

\* let p_or_q_extrapolated = lagrange_table.eval(&p_or_q)[0];
PorQExtrapolated(p, n, self, r, p_or_q_0) ==
    LET denominator == CanonicalLagrangeDenominator(p, n + 1)
        lagrange_table == LagrangeTable(p, n + 1, denominator, r)
        p_or_q == <<p_or_q_0>> \o self.u_or_v[1]
    IN  LagrangeEval(p, lagrange_table, p_or_q)

\* mutant: the table of the final g built over the points 1..2λ+1
FinalOutShare_PointsFromOne(p, n, zkp, r) ==
    LET denominator_g == CanonicalLagrangeDenominator(p, TwoNPlusOne(n))
        lagrange_table_g ==
            LagrangeTable(p, TwoNPlusOne(n), denominator_g, FSub(p, r, ONE))
    IN  LagrangeEval(p, lagrange_table_g, zkp)

\* let out_share = lagrange_table_g.eval(&zkp.g)[0];
FinalOutShare(p, n, zkp, r) ==
    LET denominator_g == CanonicalLagrangeDenominator(p, TwoNPlusOne(n))
        lagrange_table_g == LagrangeTable(p, TwoNPlusOne(n), denominator_g, r)
    IN  LagrangeEval(p, lagrange_table_g, zkp)

\* mutant: the two returned shares in the other order
verify_final_proof_Swapped(p, n, self, zkp, r, p_or_q_0) ==
    <<FinalOutShare(p, n, zkp, r), PorQExtrapolated(p, n, self, r, p_or_q_0)>>

\* mutant: the share of g(r) returned after subtracting the stored out_share
verify_final_proof_MinusOutShare(p, n, self, zkp, r, p_or_q_0) ==
    <<PorQExtrapolated(p, n, self, r, p_or_q_0),
      FSub(p, FinalOutShare(p, n, zkp, r), self.out_share)>>

\* ProofVerifier::verify_final_proof(&self, zkp, r, p_or_q_0) -> (F, F)
verify_final_proof(p, n, self, zkp, r, p_or_q_0) ==
    <<PorQExtrapolated(p, n, self, r, p_or_q_0), FinalOutShare(p, n, zkp, r)>>

---------------------------------------------------------------------------
(* The instantiations and inputs the model runs the verifier on *)

\* sample_proof_u and sample_proof_v instantiate ProofVerifier::<Fp31, U4>
\* (and ::<Fp31, U2> for the final proof); the small instantiation <F5, U2>
\* is the least field in which every table of λ = 2 exists (2λ+1 <= 5)
Fp31 == [F |-> 31, lambda |-> 4]

Fp5 == [F |-> 5, lambda |-> 2]

Configs == {Fp5, Fp31}

\* the sequence s cut into chunks of n elements (GenericArray::from_slice)
Chunks(s, n) ==
    Array([k \in 1..(Len(s) \div n) |-> SubSeq(s, (k - 1) * n + 1, k * n)])

\* the chunk sequence flattened (flat_map(|array| array.iter()))
RECURSIVE Flatten(_)
Flatten(cs) == IF cs = <<>> THEN <<>> ELSE Head(cs) \o Flatten(Tail(cs))

\* the constants of test::sample_proof_u
U_1 == <<0, 30, 0, 16, 0, 1, 0, 15, 0, 0, 0, 16, 0, 30, 0, 16,
         29, 1, 1, 15, 0, 0, 1, 15, 2, 30, 30, 16, 0, 0, 30, 16>>

U_OUT_1 == 27

U_ZKP_1 == <<0, 0, 13, 17, 11, 25, 7>>

R_1 == 22

U_2 == <<0, 0, 26, 0, 7, 18, 24, 13>>

U_ZKP_2 == <<11, 25, 17, 9, 22, 23, 3>>

R_2 == 17

U_ZKP_3 == <<21, 1, 6, 25, 1>>

U_3 == <<3, 3>>

R_3 == 30

P_RANDOM_WEIGHT == 12

\* the constants of test::sample_proof_v
V_1 == <<0, 0, 0, 30, 0, 0, 0, 1, 30, 30, 30, 30, 0, 0, 30, 30,
         0, 30, 0, 30, 0, 0, 0, 1, 0, 0, 1, 1, 0, 0, 1, 1>>

V_OUT_1 == 0

V_ZKP_1 == <<0, 30, 16, 13, 25, 3, 6>>

V_ZKP_2 == <<1, 12, 29, 30, 7, 7, 3>>

V_ZKP_3 == <<22, 14, 4, 20, 16>>

Q_RANDOM_WEIGHT == 1

\* the proofs of the tests that have N entries
TestProofs(p, N) ==
    IF p = Fp31.F
    THEN {z \in {U_ZKP_1, U_ZKP_2, U_ZKP_3, V_ZKP_1, V_ZKP_2, V_ZKP_3} : Len(z) = N}
    ELSE {}

\* proofs of N entries that no polynomial of low degree takes
PatternProofs(p, N) ==
    IF p = Fp31.F
    THEN {[i \in 1..N |-> IF i = N THEN p - 1 ELSE IF i = 1 THEN 2 ELSE ZERO]}
    ELSE {[i \in 1..N |-> IF i = 1 THEN ONE ELSE ZERO],
          [i \in 1..N |-> IF i = N THEN p - 1 ELSE IF i = 2 THEN 2 ELSE ZERO],
          [i \in 1..N |-> (i * i * i + 1) % p]}

\* the proofs a verifier of field p is handed for a table of N points
Proofs(p, N) == TestProofs(p, N) \cup PatternProofs(p, N)

\* the challenges: every element of the small field, the challenges of the
\* tests in Fp31
Challenges(p) == IF p = Fp31.F THEN {R_1, R_2, R_3} ELSE Elems(p)

\* the masking values p_or_q_0
Maskings(p) ==
    IF p = Fp31.F THEN {P_RANDOM_WEIGHT, Q_RANDOM_WEIGHT} ELSE {ZERO, 3}

\* the chunks the initial states of the small instantiation are made of
InputChunks(p, n) ==
    {[i \in 1..n |-> IF i = 1 THEN ONE ELSE ZERO],
     [i \in 1..n |-> (p - i - 1) % p]}

RECURSIVE SeqsOf(_, _)
\* the sequences of exactly k elements of S
SeqsOf(S, k) ==
    IF k = 0 THEN {<<>>}
    ELSE {Append(s, x) : s \in SeqsOf(S, k - 1), x \in S}

\* the initial (u_or_v, out_share) of a verifier
InitialStates(p, n) ==
    IF p = Fp31.F
    THEN {ProofVerifierNew(Chunks(U_1, n), U_OUT_1),
          ProofVerifierNew(Chunks(V_1, n), V_OUT_1)}
    ELSE {ProofVerifierNew(d, o) :
            d \in UNION {SeqsOf(InputChunks(p, n), k) : k \in 0..MaxChunks},
            o \in {ZERO, 3}}

---------------------------------------------------------------------------
(* The state machine of one verifier *)

Inst == DOMAIN pv

NoCall == [zkp |-> <<>>, r |-> 0, p_or_q_0 |-> 0,
           self |-> ProofVerifierNew(<<>>, 0)]

Returned(op, b, final) == [op |-> op, b_share |-> b, final |-> final]

NoProver == [u |-> <<>>, v |-> <<>>, dot |-> 0, claimed |-> 0,
             opened_b |-> <<>>, tampered |-> <<>>, seed |-> 0, masks |-> <<>>]

\* nothing constructed, recorded, shared or sent
NoLagrange == [op |-> "none"]

NoTranscript == <<>>

NoFixture == [op |-> "none"]

NoTransport == [op |-> "none"]

NoGenerator == [op |-> "none"]

NoBench == [op |-> "none"]

\* no event generator and no command constructed
ToolsIdle ==
    /\ generator = NoGenerator
    /\ bench = NoBench

OthersIdle ==
    /\ lagrange = NoLagrange
    /\ transcript = NoTranscript
    /\ fixture = NoFixture
    /\ ToolsIdle
    /\ transport = NoTransport

Init ==
    /\ OthersIdle
    /\ \E c \in Configs : F = c.F /\ lambda = c.lambda
    /\ \E s \in InitialStates(F, lambda) : pv = [i \in {1} |-> s]
    /\ ret = [i \in {1} |-> Returned("new", <<>>, <<>>)]
    /\ call = [i \in {1} |-> NoCall]
    /\ rounds = [i \in {1} |-> 0]
    /\ prover = NoProver

\* the constructions of the denominators of the sizes in S all succeed
DenominatorsExist(p, S) == \A N \in S : DenominatorExists(p, N)

\* a verifier that has not panicked and has not made its final transition
Active(i) == ret[i].op \in {"new", "verify_proof"}

\* the round loop of the caller: rounds are made until one chunk remains
\* (a first round is made on any state)
LoopContinues(i) == IF rounds[i] = 0 THEN TRUE ELSE Len(pv[i].u_or_v) > 1

\* mutant: the out_share of a round is kept in a place all the verifiers
\* share
VerifyProof_SharedOutShare(i, zkp, r) ==
    /\ Active(i)
    /\ LoopContinues(i)
    /\ \E res \in {verify_proof(F, lambda, pv[i].u_or_v, pv[i].out_share,
                                zkp, r)} :
          /\ pv' = [j \in DOMAIN pv |->
                      IF j = i THEN res.pv
                      ELSE [pv[j] EXCEPT !.out_share = res.pv.out_share]]
          /\ ret' = [ret EXCEPT ![i] =
                       Returned("verify_proof", <<res.b_share>>, <<>>)]
          /\ rounds' = [rounds EXCEPT ![i] = @ + 1]
    /\ call' = [call EXCEPT ![i] =
                  [zkp |-> zkp, r |-> r, p_or_q_0 |-> 0, self |-> pv[i]]]
    /\ UNCHANGED <<F, lambda, prover>>

\* one round: (b_share, pv') = ProofVerifier::verify_proof(pv.u_or_v.iter(),
\* pv.out_share, &zkp, r)
VerifyProof(i, zkp, r) ==
    /\ Active(i)
    /\ LoopContinues(i)
    /\ IF DenominatorsExist(F, {TwoNMinusOne(lambda), lambda})
       THEN \E res \in {verify_proof(F, lambda, pv[i].u_or_v, pv[i].out_share,
                                     zkp, r)} :
               /\ pv' = [pv EXCEPT ![i] = res.pv]
               /\ ret' = [ret EXCEPT ![i] =
                            Returned("verify_proof", <<res.b_share>>, <<>>)]
               /\ rounds' = [rounds EXCEPT ![i] = @ + 1]
       ELSE /\ ret' = [ret EXCEPT ![i] = Returned(ConfigurationError, <<>>, <<>>)]
            /\ UNCHANGED <<pv, rounds>>
    /\ call' = [call EXCEPT ![i] =
                  [zkp |-> zkp, r |-> r, p_or_q_0 |-> 0, self |-> pv[i]]]
    /\ UNCHANGED <<F, lambda, prover>>

\* the final transition: pv.verify_final_proof(&zkp, r, p_or_q_0); the
\* assertion on the number of chunks panics and nothing is returned
VerifyFinalProof(i, zkp, r, p_or_q_0) ==
    /\ Active(i)
    /\ ret' = [ret EXCEPT ![i] =
                 IF ~FinalAssertion(pv[i])
                 THEN Returned("panic", <<>>, <<>>)
                 ELSE IF ~DenominatorsExist(F, {lambda + 1, TwoNPlusOne(lambda)})
                 THEN Returned(ConfigurationError, <<>>, <<>>)
                 ELSE Returned("verify_final_proof", <<>>,
                               verify_final_proof(F, lambda, pv[i], zkp, r, p_or_q_0))]
    /\ call' = [call EXCEPT ![i] =
                  [zkp |-> zkp, r |-> r, p_or_q_0 |-> p_or_q_0, self |-> pv[i]]]
    /\ UNCHANGED <<F, lambda, pv, rounds, prover>>

\* the tests trim the last chunk from U4 to U2 and build the verifier of the
\* final proof: ProofVerifier::<Fp31, U2>::new(vec![u_or_v; 1], pv_3.out_share)
TrimToU2(i) ==
    /\ ret[i].op = "verify_proof"
    /\ lambda > 2
    /\ Len(pv[i].u_or_v) >= 1
    /\ lambda' = 2
    /\ pv' = [pv EXCEPT ![i] =
                ProofVerifierNew(<<SubSeq(pv[i].u_or_v[1], 1, 2)>>, pv[i].out_share)]
    /\ ret' = [ret EXCEPT ![i] = Returned("new", <<>>, <<>>)]
    /\ call' = [call EXCEPT ![i] = [NoCall EXCEPT !.self = pv[i]]]
    /\ UNCHANGED <<F, rounds, prover>>

Next ==
    \/ /\ \E i \in Inst, zkp \in Proofs(F, TwoNMinusOne(lambda)),
             r \in Challenges(F) :
             VerifyProof(i, zkp, r)
       /\ UNCHANGED others
    \/ /\ \E i \in Inst, zkp \in Proofs(F, TwoNPlusOne(lambda)),
             r \in Challenges(F), p_or_q_0 \in Maskings(F) :
             VerifyFinalProof(i, zkp, r, p_or_q_0)
       /\ UNCHANGED others
    \/ /\ \E i \in Inst : TrimToU2(i)
       /\ UNCHANGED others

Spec == Init /\ [][Next]_vars

---------------------------------------------------------------------------
(* The prover and the three parties *)

Parties == 1..3

\* party k runs one verifier on its share of u (instance k) and one on its
\* share of v (instance k + 3)
UInst(k) == k

VInst(k) == k + 3

PartyOf(i) == IF i <= 3 THEN i ELSE i - 3

\* rng.gen::<F>(): the i-th value the rng seeded with seed draws for x_k
Gen(p, seed, k, i) == (seed * k + i * (k + 1) + 1) % p

\* share(input, rng), on every element of x: x1 and x2 are drawn,
\* x3 = input - (x1 + x2); party k holds x_k
ShareSeq(p, x, seed) ==
    Array([k \in Parties |->
        Array([i \in 1..Len(x) |->
            IF k < 3 THEN Gen(p, seed, k, i)
            ELSE FSub(p, x[i], FAdd(p, Gen(p, seed, 1, i), Gen(p, seed, 2, i)))])])

ShareChunks(p, cs, seed) ==
    Array([k \in Parties |->
        Array([j \in 1..Len(cs) |-> ShareSeq(p, cs[j], seed + j)[k]])])

ShareOne(p, x, seed) ==
    Array([k \in Parties |-> ShareSeq(p, <<x>>, seed)[k][1]])

\* the Lagrange table of size N at the point x
CanonicalTable(p, N, x) ==
    LagrangeTable(p, N, CanonicalLagrangeDenominator(p, N), x)

RECURSIVE ProductSum(_, _, _, _, _)
\* the sum over the chunks j.. of p_j(x) * q_j(x), table the Lagrange table
\* at x
ProductSum(p, table, u, v, j) ==
    IF j > Len(u) THEN ZERO
    ELSE FAdd(p, FMul(p, LagrangeEval(p, table, u[j]),
                         LagrangeEval(p, table, v[j])),
                 ProductSum(p, table, u, v, j + 1))

\* ProofGenerator::compute_proof: g at the canonical points 0..2λ-2
compute_proof(p, n, u, v) ==
    Array([x \in 1..TwoNMinusOne(n) |->
        ProductSum(p, CanonicalTable(p, n, FFrom(p, x - 1)), u, v, 1)])

\* the product of the values table gives to a and to b
ProductAt(p, table, a, b) ==
    FMul(p, LagrangeEval(p, table, a), LagrangeEval(p, table, b))

\* ProofGenerator::compute_final_proof: g = p * q at the points 0..2λ, p and q
\* the polynomials through [p_0, u] and [q_0, v]
compute_final_proof(p, n, u, v, p_0, q_0) ==
    Array([x \in 1..TwoNPlusOne(n) |->
        ProductAt(p, CanonicalTable(p, n + 1, FFrom(p, x - 1)),
                  <<p_0>> \o u[1], <<q_0>> \o v[1])])

\* every chunk of u at the point of table, regrouped into chunks of λ, the
\* last one zero-padded
Regroup(p, n, table, u) ==
    Array([k \in 1..((Len(u) + n - 1) \div n) |->
        Array([i \in 1..n |->
            IF (k - 1) * n + i <= Len(u)
            THEN LagrangeEval(p, table, u[(k - 1) * n + i]) ELSE ZERO])])

\* the prover's factor sequence of the next round
ProverNext(p, n, u, r) == Regroup(p, n, CanonicalTable(p, n, r), u)

RECURSIVE ScalarProduct(_, _, _)
\* the scalar product of two (flattened) sequences
ScalarProduct(p, a, b) ==
    IF a = <<>> THEN ZERO
    ELSE FAdd(p, FMul(p, Head(a), Head(b)), ScalarProduct(p, Tail(a), Tail(b)))

RECURSIVE SumOver(_, _, _)
\* the sum in the field of f[k] over k in S
SumOver(p, f, S) ==
    IF S = {} THEN ZERO
    ELSE LET k == CHOOSE x \in S : TRUE
         IN  FAdd(p, f[k], SumOver(p, f, S \ {k}))

\* the proof with delta added to entry index (index 0: the proof as it is)
Tampered(p, g, index, delta) ==
    Array([x \in 1..Len(g) |-> IF x = index THEN FAdd(p, g[x], delta) ELSE g[x]])

NoTamper == [index |-> 0, delta |-> 0]

\* the rng seeds of the model
Seeds == {1, 2}

Reverse(s) == Array([j \in 1..Len(s) |-> s[Len(s) + 1 - j]])

\* the second factors the model pairs with u: u reversed, and the sequence
\* that differs from u in every chunk
SecondFactors(p, n, u) ==
    {w \in SeqsOf(InputChunks(p, n), Len(u)) :
        \/ w = Reverse(u)
        \/ \A j \in 1..Len(u) : w[j] # u[j]}

HonestInit ==
    /\ OthersIdle
    /\ F = Fp5.F
    /\ lambda = Fp5.lambda
    /\ \E n \in 1..MaxChunks, seed \in Seeds, wrong \in {0, 1} :
         \E u \in SeqsOf(InputChunks(F, lambda), n) :
         \E v \in SecondFactors(F, lambda, u) :
            LET dot == ScalarProduct(F, Flatten(u), Flatten(v))
                claimed == FAdd(F, dot, wrong)
                us == ShareChunks(F, u, seed)
                vs == ShareChunks(F, v, seed + 1)
                outs == ShareOne(F, claimed, seed + 2)
            IN  /\ prover = [u |-> u, v |-> v, dot |-> dot, claimed |-> claimed,
                             opened_b |-> <<>>, tampered |-> <<>>, seed |-> seed,
                             masks |-> <<>>]
                /\ pv = [i \in 1..6 |->
                           ProofVerifierNew(IF i <= 3 THEN us[i] ELSE vs[i - 3],
                                            outs[PartyOf(i)])]
    /\ ret = [i \in 1..6 |-> Returned("new", <<>>, <<>>)]
    /\ call = [i \in 1..6 |-> NoCall]
    /\ rounds = [i \in 1..6 |-> 0]

\* one round of the three parties: the prover's proof (tampered with or not)
\* is shared, the challenge r drawn, and every party verifies its share
Round(r, tamper) ==
    /\ \A i \in Inst : Active(i) /\ LoopContinues(i)
    /\ \E g \in {Tampered(F, compute_proof(F, lambda, prover.u, prover.v),
                          tamper.index, tamper.delta)} :
       \E zkps \in {ShareSeq(F, g, prover.seed + r + rounds[1])} :
       \E res \in {Array([i \in Inst |->
                     verify_proof(F, lambda, pv[i].u_or_v, pv[i].out_share,
                                  zkps[PartyOf(i)], r)])} :
           /\ pv' = [i \in Inst |-> res[i].pv]
           /\ ret' = [i \in Inst |->
                        Returned("verify_proof", <<res[i].b_share>>, <<>>)]
           /\ call' = [i \in Inst |->
                         [zkp |-> zkps[PartyOf(i)], r |-> r, p_or_q_0 |-> 0,
                          self |-> pv[i]]]
           /\ prover' = [prover EXCEPT
                           !.u = ProverNext(F, lambda, prover.u, r),
                           !.v = ProverNext(F, lambda, prover.v, r),
                           !.opened_b = Append(@,
                               SumOver(F, [k \in Parties |-> res[UInst(k)].b_share],
                                       Parties)),
                           !.tampered = IF tamper.index = 0 THEN @
                                        ELSE Append(@, [round |-> rounds[1] + 1,
                                                        index |-> tamper.index,
                                                        r |-> r,
                                                        final |-> FALSE])]
    /\ rounds' = [i \in Inst |-> rounds[i] + 1]
    /\ UNCHANGED <<F, lambda>>

\* the final round of the three parties: the masking values p_0 and q_0 are
\* drawn, they and the final proof are shared, and every party verifies its
\* share
FinalRound(r, tamper) ==
    /\ \A i \in Inst : Active(i) /\ FinalAssertion(pv[i])
    /\ \E p_0 \in {Gen(F, prover.seed, 1, 1)}, q_0 \in {Gen(F, prover.seed, 2, 1)} :
       \E g \in {Tampered(F, compute_final_proof(F, lambda, prover.u, prover.v,
                                                 p_0, q_0),
                          tamper.index, tamper.delta)} :
       \E zkps \in {ShareSeq(F, g, prover.seed + r)},
          p0s \in {ShareOne(F, p_0, prover.seed + 3)},
          q0s \in {ShareOne(F, q_0, prover.seed + 4)} :
       \E mask \in {Array([i \in Inst |->
                               IF i <= 3 THEN p0s[i] ELSE q0s[i - 3]])} :
           /\ ret' = [i \in Inst |->
                        Returned("verify_final_proof", <<>>,
                                 verify_final_proof(F, lambda, pv[i],
                                                    zkps[PartyOf(i)], r, mask[i]))]
           /\ call' = [i \in Inst |->
                         [zkp |-> zkps[PartyOf(i)], r |-> r, p_or_q_0 |-> mask[i],
                          self |-> pv[i]]]
           /\ prover' = [prover EXCEPT
                           !.masks = <<p_0, q_0>>,
                           !.tampered = IF tamper.index = 0 THEN @
                                        ELSE Append(@, [round |-> rounds[1] + 1,
                                                        index |-> tamper.index,
                                                        r |-> r,
                                                        final |-> TRUE])]
    /\ UNCHANGED <<F, lambda, pv, rounds>>

HonestNext ==
    \/ /\ \E r \in Challenges(F) : Round(r, NoTamper)
       /\ UNCHANGED others
    \/ /\ \E r \in Challenges(F) : FinalRound(r, NoTamper)
       /\ UNCHANGED others

HonestSpec == HonestInit /\ [][HonestNext]_vars

\* the single-element changes of a proof of N entries: ONE added to one entry
Tampers(N) == {[index |-> i, delta |-> ONE] : i \in 1..N}

\* runs of a prover whose claim is true, the first rng seed, v the reverse
\* of u
TamperInit ==
    /\ HonestInit
    /\ prover.claimed = prover.dot
    /\ prover.seed = 1
    /\ prover.v = Reverse(prover.u)

\* as HonestNext, and in at most one round of a run one entry of the proof is
\* changed before it is shared
TamperNext ==
    \/ HonestNext
    \/ /\ prover.tampered = <<>>
       /\ \E r \in Challenges(F), t \in Tampers(TwoNMinusOne(lambda)) : Round(r, t)
       /\ UNCHANGED others
    \/ /\ prover.tampered = <<>>
       /\ \E r \in Challenges(F), t \in Tampers(TwoNPlusOne(lambda)) :
             FinalRound(r, t)
       /\ UNCHANGED others

TamperSpec == TamperInit /\ [][TamperNext]_vars

---------------------------------------------------------------------------
(* What the claims are stated with *)

RECURSIVE Neville(_, _, _, _, _)
\* the value at r of the polynomial of least degree that takes v[k+1] at the
\* canonical points k = i..j (Neville's recurrence)
Neville(p, v, r, i, j) ==
    IF i = j THEN v[i + 1]
    ELSE FMul(p,
              FSub(p, FMul(p, FSub(p, r, i % p), Neville(p, v, r, i + 1, j)),
                      FMul(p, FSub(p, r, j % p), Neville(p, v, r, i, j - 1))),
              FInv(p, (j - i) % p))

\* the value at r of the polynomial of degree < Len(v) that takes v at the
\* canonical points 0..Len(v)-1
PolyAt(p, v, r) == Neville(p, v, r, 0, Len(v) - 1)

RECURSIVE IntSum(_)
\* the sum of a sequence of integers
IntSum(s) == IF s = <<>> THEN 0 ELSE Head(s) + IntSum(Tail(s))

\* the number of chunks n inputs are regrouped into
CeilDiv(n, d) == (n + d - 1) \div d

\* instance i has just returned from verify_proof
Verified(i) == ret[i].op = "verify_proof"

\* instance i has just returned from verify_final_proof
Finalised(i) == ret[i].op = "verify_final_proof"

\* C1: the b_share returned by verify_proof is (the sum of the proof's first
\* λ entries) - (the prior out_share), in the prime field
C1_BShareIsSumMinusOut ==
    \A i \in Inst :
        Verified(i) =>
            /\ Len(ret[i].b_share) = 1
            /\ ret[i].b_share[1] \in Elems(F)
            /\ (ret[i].b_share[1] + call[i].self.out_share) % F
                  = IntSum(SubSeq(call[i].zkp, 1, lambda)) % F

\* a round whose prior out_share exceeds the sum of the first λ entries (the
\* subtraction wraps around), the entries after the first λ not all zero
C1_Witness ==
    \E i \in Inst :
        /\ Verified(i)
        /\ IntSum(SubSeq(call[i].zkp, 1, lambda)) % F < call[i].self.out_share
        /\ IntSum(call[i].zkp) % F # IntSum(SubSeq(call[i].zkp, 1, lambda)) % F
        /\ ret[i].b_share # <<ZERO>>

\* C2: verify_proof on n chunks returns ceil(n/λ) chunks of λ elements;
\* flattened, element k < n is the value at r of the polynomial that takes
\* chunk k's entries at the canonical points, every element >= n is ZERO
C2_CompressedData ==
    \A i \in Inst :
        Verified(i) =>
            LET input == call[i].self.u_or_v
                n == Len(input)
                output == pv[i].u_or_v
                flat == Flatten(output)
            IN  /\ Len(output) = CeilDiv(n, lambda)
                /\ \A c \in 1..Len(output) : Len(output[c]) = lambda
                /\ \A k \in 1..Len(flat) :
                      flat[k] = IF k <= n THEN PolyAt(F, input[k], call[i].r)
                                ELSE ZERO

\* a round on a number of chunks that is no multiple of λ and exceeds λ: the
\* trailing group is incomplete, and a collapsed element of it is not zero
C2_Witness ==
    \E i \in Inst :
        LET n == Len(call[i].self.u_or_v)
        IN  /\ Verified(i)
            /\ n > lambda
            /\ n % lambda # 0
            /\ Len(pv[i].u_or_v) = (n \div lambda) + 1
            /\ pv[i].u_or_v[Len(pv[i].u_or_v)][1] # ZERO
            /\ call[i].r >= lambda

\* C3: the out_share of the state verify_proof returns is the value at r of
\* the polynomial that takes the proof's entries at the canonical points; the
\* next round subtracts that value as its prior out_share
C3_OutShareIsProofAtR ==
    [][\A i \in Inst :
          ret'[i].op = "verify_proof" =>
              /\ pv'[i].out_share = PolyAt(F, call'[i].zkp, call'[i].r)
              /\ ret[i].op = "verify_proof" =>
                    (ret'[i].b_share[1] + PolyAt(F, call[i].zkp, call[i].r)) % F
                        = IntSum(SubSeq(call'[i].zkp, 1, lambda)) % F]_vars

\* a second round made on the state of a first, the challenge of the first no
\* canonical point of the proof's table and its out_share not zero
C3_Witness ==
    \E i \in Inst :
        /\ Verified(i)
        /\ rounds[i] = 2
        /\ call[i].self.out_share # ZERO
        /\ call[i].r >= TwoNMinusOne(lambda)
        /\ pv[i].out_share # ZERO

\* C4: on a state of one chunk verify_final_proof returns the value at r of
\* the polynomial taking [masking value, chunk] at the points 0..λ, and the
\* value at r of the polynomial taking the proof at the points 0..2λ
C4_FinalShares ==
    \A i \in Inst :
        (Finalised(i) /\ Len(call[i].self.u_or_v) = 1) =>
            /\ Len(call[i].zkp) = TwoNPlusOne(lambda)
            /\ ret[i].final =
                 <<PolyAt(F, <<call[i].p_or_q_0>> \o call[i].self.u_or_v[1],
                          call[i].r),
                   PolyAt(F, call[i].zkp, call[i].r)>>

\* a final transition at a challenge outside the canonical points, with a
\* masking value, a chunk and shares that are not zero
C4_Witness ==
    \E i \in Inst :
        /\ Finalised(i)
        /\ call[i].r > 2 * lambda
        /\ call[i].p_or_q_0 # ZERO
        /\ call[i].self.u_or_v[1][lambda] # ZERO
        /\ ret[i].final[1] # ZERO
        /\ ret[i].final[2] # ZERO
        /\ ret[i].final[1] # ret[i].final[2]

\* C5: in Fp31 with λ = 4, verify_proof on U_1, proof [0,0,13,17,11,25,7],
\* prior out_share 27 and r = 22 returns b_share 3, the data
\* [0,0,26,0,7,18,24,13] and the out_share 0
C5_FirstRoundOfSample ==
    \A i \in Inst :
        (/\ Verified(i)
         /\ F = 31
         /\ lambda = 4
         /\ call[i].self = ProofVerifierNew(Chunks(U_1, 4), 27)
         /\ call[i].zkp = <<0, 0, 13, 17, 11, 25, 7>>
         /\ call[i].r = 22)
        => /\ ret[i].b_share = <<3>>
           /\ Flatten(pv[i].u_or_v) = <<0, 0, 26, 0, 7, 18, 24, 13>>
           /\ pv[i].out_share = 0

\* the first round of sample_proof_u has been made
C5_Witness ==
    \E i \in Inst :
        /\ Verified(i)
        /\ F = 31
        /\ lambda = 4
        /\ Len(call[i].self.u_or_v) = 8
        /\ Flatten(call[i].self.u_or_v) = U_1
        /\ call[i].self.out_share = 27
        /\ call[i].zkp = <<0, 0, 13, 17, 11, 25, 7>>
        /\ call[i].r = 22

\* C6: from the data [0,0,26,0,7,18,24,13] and out_share 0, verify_proof with
\* proof [11,25,17,9,22,23,3] and r = 17 returns b_share 0, out_share 13 and
\* one chunk that begins [3,3]; on those two entries as a λ = 2 state,
\* verify_final_proof with proof [21,1,6,25,1], r = 30 and masking value 12
\* returns the opened value 30 and the out_share 0
C6_SecondAndFinalRoundOfSample ==
    \A i \in Inst :
        /\ (/\ Verified(i)
            /\ F = 31
            /\ lambda = 4
            /\ call[i].self =
                 ProofVerifierNew(Chunks(<<0, 0, 26, 0, 7, 18, 24, 13>>, 4), 0)
            /\ call[i].zkp = <<11, 25, 17, 9, 22, 23, 3>>
            /\ call[i].r = 17)
           => /\ ret[i].b_share = <<0>>
              /\ pv[i].out_share = 13
              /\ Len(pv[i].u_or_v) = 1
              /\ SubSeq(pv[i].u_or_v[1], 1, 2) = <<3, 3>>
        /\ (/\ ret[i].op \in {"verify_final_proof", "panic"}
            /\ F = 31
            /\ lambda = 2
            /\ call[i].self = ProofVerifierNew(<<(<<3, 3>>)>>, 13)
            /\ call[i].zkp = <<21, 1, 6, 25, 1>>
            /\ call[i].r = 30
            /\ call[i].p_or_q_0 = 12)
           => ret[i].final = <<30, 0>>

\* the final transition of sample_proof_u has been made
C6_Witness ==
    \E i \in Inst :
        /\ Finalised(i)
        /\ F = 31
        /\ lambda = 2
        /\ rounds[i] = 2
        /\ call[i].self = ProofVerifierNew(<<(<<3, 3>>)>>, 13)
        /\ call[i].zkp = <<21, 1, 6, 25, 1>>
        /\ call[i].r = 30
        /\ call[i].p_or_q_0 = 12

\* C10: verify_final_proof returns shares only on a state of exactly one
\* chunk; on a state of no chunk or of more than one it fails (the length
\* assertion) and returns nothing
C10_FinalNeedsOneChunk ==
    \A i \in Inst :
        /\ Finalised(i) =>
              /\ Len(call[i].self.u_or_v) = 1
              /\ Len(ret[i].final) = 2
        /\ (ret[i].op \in {"verify_final_proof", "panic"}
              /\ Len(call[i].self.u_or_v) # 1) =>
              /\ ret[i].op = "panic"
              /\ ret[i].final = <<>>
              /\ ret[i].b_share = <<>>

\* the final transition was invoked on a state of more than one chunk
C10_Witness ==
    \E i \in Inst :
        /\ ret[i].op = "panic"
        /\ Len(call[i].self.u_or_v) > 1
        /\ pv[i] = call[i].self


---------------------------------------------------------------------------
(* The three parties *)

\* the three parties of a run each hold one verifier on u and one on v
ThreeParties == DOMAIN pv = 1..6

\* the value the parties' shares f[1], f[2], f[3] add up to
Combined(f) == SumOver(F, f, Parties)

\* the chunks the verifiers base+1 .. base+3 were called on, combined
CombinedPrior(base) ==
    Array([j \in 1..Len(call[base + 1].self.u_or_v) |->
        Array([i \in 1..Len(call[base + 1].self.u_or_v[j]) |->
            Combined(Array([k \in Parties |->
                call[base + k].self.u_or_v[j][i]]))])])

\* the out_share the verifiers were called with, combined
CombinedPriorOut == Combined(Array([k \in Parties |-> call[UInst(k)].self.out_share]))

\* the proof the verifiers were called with, combined
CombinedProof ==
    Array([x \in 1..Len(call[1].zkp) |->
        Combined(Array([k \in Parties |-> call[UInst(k)].zkp[x]]))])

\* the b_share values verify_proof returned to the parties' verifiers on u,
\* and to their verifiers on v, combined
CombinedBU == Combined(Array([k \in Parties |-> ret[UInst(k)].b_share[1]]))

CombinedBV == Combined(Array([k \in Parties |-> ret[VInst(k)].b_share[1]]))

\* the inputs of the round just verified are honest
HonestRound ==
    /\ CombinedProof =
          compute_proof(F, lambda, CombinedPrior(0), CombinedPrior(3))
    /\ CombinedPriorOut =
          ScalarProduct(F, Flatten(CombinedPrior(0)), Flatten(CombinedPrior(3)))

\* C7: when the proof of a round is the honestly computed proof for the
\* current factor chunks and the three parties' prior out_shares sum to the
\* scalar product of the current factors, the b_share values verify_proof
\* returns to the three parties sum to ZERO, in every round
C7_HonestBSharesSumToZero ==
    (ThreeParties /\ Verified(1) /\ HonestRound)
        => (CombinedBU = ZERO /\ CombinedBV = ZERO)

\* a second honest round in which the parties' own b_shares are not all ZERO
C7_Witness ==
    /\ ThreeParties /\ Verified(1) /\ HonestRound
    /\ rounds[1] = 2
    /\ \E k \in Parties : ret[UInst(k)].b_share[1] # ZERO
    /\ CombinedBU = ZERO

\* the final shares of the three parties, combined
CombinedP == Combined(Array([k \in Parties |-> ret[UInst(k)].final[1]]))

CombinedQ == Combined(Array([k \in Parties |-> ret[VInst(k)].final[1]]))

CombinedFinalOut == Combined(Array([k \in Parties |-> ret[UInst(k)].final[2]]))

FinalEquation == CombinedFinalOut = FMul(F, CombinedP, CombinedQ)

AllZero(b) == \A k \in 1..Len(b) : b[k] = ZERO

\* C8 as stated: after the verify_proof rounds and verify_final_proof on
\* honest proofs, the combined final out_share is the product of the combined
\* opened u and v values exactly when the scalar product of the original
\* sequences is the claimed value
C8_FinalEquationIffClaimTrue ==
    (ThreeParties /\ Finalised(1) /\ rounds[1] >= 1)
        => (FinalEquation <=> prover.dot = prover.claimed)

\* C8: with honest proofs the combined final out_share is always the product
\* of the combined opened u and v values; the combined b of the first
\* verify_proof round is (scalar product of the original sequences) -
\* (claimed value) and the combined b of every later round is ZERO, so after
\* at least one verify_proof round all combined b are ZERO exactly when the
\* scalar product is the claimed value
C8_FinalEquationAndCombinedB ==
    (ThreeParties /\ Finalised(1))
        => /\ FinalEquation
           /\ Len(prover.opened_b) = rounds[1]
           /\ rounds[1] >= 1 =>
                /\ prover.opened_b[1] = FSub(F, prover.dot, prover.claimed)
                /\ AllZero(Tail(prover.opened_b))
                /\ AllZero(prover.opened_b) <=> prover.dot = prover.claimed

\* a run of two rounds and the final round on a false claim: the final
\* equation holds, the first round's combined b does not vanish
C8_Witness ==
    /\ ThreeParties /\ Finalised(1)
    /\ rounds[1] = 2
    /\ prover.dot # prover.claimed
    /\ FinalEquation
    /\ prover.opened_b[1] # ZERO

\* the challenges at which the Lagrange coefficient of entry index of a proof
\* of N entries vanishes: the canonical points other than its own
Roots(index, N) == {FFrom(F, x) : x \in (0 .. (N - 1)) \ {index - 1}}

TheTamper == prover.tampered[1]

TamperedSize ==
    IF TheTamper.final THEN TwoNPlusOne(lambda) ELSE TwoNMinusOne(lambda)

\* C9 as stated: after one entry of one proof was changed, unless the
\* challenge of that round is one of the few canonical points, some
\* verify_proof round's combined b is nonzero when the run has ended
C9_SomeCombinedBNonzero ==
    (ThreeParties /\ Finalised(1) /\ rounds[1] >= 1 /\ prover.tampered # <<>>
        /\ TheTamper.r \notin Roots(TheTamper.index, TamperedSize))
        => ~AllZero(prover.opened_b)

\* C9: a change of one of the first λ entries of a verify_proof round's
\* proof makes that round's combined b nonzero for every challenge; a change
\* of a later entry leaves that round's combined b ZERO and makes the next
\* verify_proof round's combined b nonzero exactly when the challenge is none
\* of the canonical points other than the entry's own; when no verify_proof
\* round follows, or the changed proof is the final one, every combined b is
\* ZERO, and a change of the final proof shows only in the final shares
C9_WhereAChangeShows ==
    (ThreeParties /\ prover.tampered # <<>>)
        => LET t == TheTamper
               b == prover.opened_b
               shows == t.r \notin Roots(t.index, TamperedSize)
           IN  /\ \A k \in 1..Len(b) : k \notin {t.round, t.round + 1} => b[k] = ZERO
               /\ (~t.final /\ t.index <= lambda) => b[t.round] # ZERO
               /\ (~t.final /\ t.index > lambda) =>
                     /\ b[t.round] = ZERO
                     /\ Len(b) > t.round => (b[t.round + 1] # ZERO <=> shows)
                     /\ (Len(b) = t.round /\ Finalised(1)) => FinalEquation
               /\ t.final =>
                     /\ AllZero(b)
                     /\ ~FinalEquation <=> shows

\* a change of a later entry in the first round that the second round's
\* combined b shows
C9_Witness ==
    /\ ThreeParties /\ prover.tampered # <<>>
    /\ ~TheTamper.final /\ TheTamper.index > lambda
    /\ Len(prover.opened_b) = 2
    /\ prover.opened_b[1] = ZERO
    /\ prover.opened_b[2] # ZERO


---------------------------------------------------------------------------
(* The Lagrange component on its own, and the verifier in fields that may be
   too small for its tables *)

\* the largest table size constructed by the component on its own
MaxPoints == 4

\* fields and block sizes: in the field of 2 elements no proof table exists,
\* in the field of 3 elements with λ = 2 the tables of verify_proof exist and
\* the table of the final proof does not
LagrangeConfigs ==
    {[F |-> 2, lambda |-> 2], [F |-> 3, lambda |-> 2], [F |-> 3, lambda |-> 3], Fp5}

\* the values eval is applied to
Samples(p) == {ZERO, ONE, p - 1}

\* the inputs of eval on a table of N points: of the table's size, and of
\* every other length up to N + 1
EvalInputs(p, N) ==
    SeqsOf(Samples(p), N)
        \cup {[i \in 1..k |-> ONE] : k \in (0 .. (N + 1)) \ {N}}

Lagrange(op, N, denominator, r, table, values, out, err) ==
    [op |-> op, N |-> N, denominator |-> denominator, r |-> r, table |-> table,
     values |-> values, out |-> out, err |-> err]

NoError == "none"

LagrangeInit ==
    /\ \E c \in LagrangeConfigs : F = c.F /\ lambda = c.lambda
    /\ \E k \in 1..2 : \E d \in SeqsOf(InputChunks(F, lambda), k) :
          pv = [i \in {1} |-> ProofVerifierNew(d, ZERO)]
    /\ ret = [i \in {1} |-> Returned("new", <<>>, <<>>)]
    /\ call = [i \in {1} |-> NoCall]
    /\ rounds = [i \in {1} |-> 0]
    /\ prover = NoProver
    /\ lagrange = Lagrange("none", 0, <<>>, 0, <<>>, <<>>, <<>>, NoError)
    /\ transcript = NoTranscript
    /\ fixture = NoFixture
    /\ ToolsIdle
    /\ transport = NoTransport

\* CanonicalLagrangeDenominator::<F, N>::new(): fails if a product of point
\* differences has no inverse
DenominatorNew(N) ==
    /\ lagrange.op = "none"
    /\ ret[1].op = "new"
    /\ lagrange' =
          IF DenominatorExists(F, N)
          THEN Lagrange("denominator", N, CanonicalLagrangeDenominator(F, N),
                        0, <<>>, <<>>, <<>>, NoError)
          ELSE Lagrange("failed", N, <<>>, 0, <<>>, <<>>, <<>>, ConfigurationError)

\* LagrangeTable::new(&denominator, &r)
TableNew(r) ==
    /\ lagrange.op = "denominator"
    /\ lagrange' =
          [lagrange EXCEPT
              !.op = "table", !.r = r,
              !.table = LagrangeTable(F, lagrange.N, lagrange.denominator, r)]

\* table.eval(values): fails on an input of another length than the table
Eval(values) ==
    /\ lagrange.op \in {"table", "eval"}
    /\ lagrange' =
          IF EvalLengthOk(lagrange.table, values)
          THEN [lagrange EXCEPT
                   !.op = "eval", !.values = values, !.err = NoError,
                   !.out = <<LagrangeEval(F, lagrange.table, values)>>]
          ELSE [lagrange EXCEPT
                   !.op = "eval", !.values = values, !.err = LengthMismatch,
                   !.out = <<>>]

LagrangeNext ==
    \/ /\ \E N \in 1..MaxPoints : DenominatorNew(N)
       /\ UNCHANGED <<F, lambda, pv, ret, call, rounds, prover,
                      transcript, fixture, transport, generator, bench>>
    \/ /\ \E r \in Elems(F) : TableNew(r)
       /\ UNCHANGED <<F, lambda, pv, ret, call, rounds, prover,
                      transcript, fixture, transport, generator, bench>>
    \/ /\ \E values \in EvalInputs(F, lagrange.N) : Eval(values)
       /\ UNCHANGED <<F, lambda, pv, ret, call, rounds, prover,
                      transcript, fixture, transport, generator, bench>>
    \/ /\ lagrange.op = "none"
       /\ \E zkp \in PatternProofs(F, TwoNMinusOne(lambda)), r \in Elems(F) :
             VerifyProof(1, zkp, r)
       /\ UNCHANGED others
    \/ /\ lagrange.op = "none"
       /\ \E zkp \in PatternProofs(F, TwoNPlusOne(lambda)), r \in Elems(F) :
             VerifyFinalProof(1, zkp, r, ONE)
       /\ UNCHANGED others

LagrangeSpec == LagrangeInit /\ [][LagrangeNext]_vars


\* C11: for every table size N not exceeding the field order, every point r
\* and all values v, eval on the table at r gives the value at r of the
\* polynomial of degree < N that takes v at the canonical points 0..N-1
C11_EvalIsThePolynomialAtR ==
    (lagrange.op = "eval" /\ lagrange.err = NoError)
        => /\ lagrange.N <= F
           /\ lagrange.out = <<PolyAt(F, lagrange.values, lagrange.r)>>
           /\ lagrange.r < lagrange.N => lagrange.out[1] = lagrange.values[lagrange.r + 1]

\* a table of three or more points evaluated outside the canonical points on
\* values that are not constant
C11_Witness ==
    /\ lagrange.op = "eval" /\ lagrange.err = NoError
    /\ lagrange.N >= 3
    /\ lagrange.r >= lagrange.N
    /\ lagrange.values[1] # lagrange.values[2]
    /\ lagrange.out[1] \notin {lagrange.values[k] : k \in 1..lagrange.N}

\* C12: the construction of the denominator for N points fails with a
\* configuration error exactly when N exceeds the field order; verify_proof
\* with 2λ-1 > field order and verify_final_proof with 2λ+1 > field order
\* fail and return no shares
C12_TooSmallFieldFails ==
    /\ lagrange.op # "none" =>
          /\ lagrange.op = "failed" <=> lagrange.N > F
          /\ lagrange.op = "failed" =>
                (lagrange.err = ConfigurationError /\ lagrange.denominator = <<>>)
          /\ lagrange.op # "failed" => lagrange.err # ConfigurationError
    /\ (call[1] # NoCall /\ TwoNMinusOne(lambda) > F) =>
          /\ ret[1].op \in {ConfigurationError, "panic"}
          /\ ret[1].b_share = <<>> /\ ret[1].final = <<>>
          /\ pv[1] = call[1].self
    /\ TwoNPlusOne(lambda) > F =>
          (ret[1].op # "verify_final_proof" /\ ret[1].final = <<>>)
    /\ ret[1].op = ConfigurationError => TwoNPlusOne(lambda) > F

\* in the field of 3 elements with λ = 2 a round of verify_proof was made and
\* verify_final_proof then failed on its table of 5 points
C12_Witness ==
    /\ TwoNMinusOne(lambda) <= F /\ TwoNPlusOne(lambda) > F
    /\ rounds[1] >= 1
    /\ Len(pv[1].u_or_v) = 1
    /\ ret[1].op = ConfigurationError

\* C13: eval fails with a length-mismatch error exactly when its input is
\* not of the table's size, and changes neither the table nor its input; every
\* eval the verifier makes is on an input of the table's size: λ for the
\* chunks, 2λ-1 for the proof, λ+1 for the masked final chunk, 2λ+1 for the
\* final proof
C13_EvalLength ==
    [][/\ lagrange'.op = "eval" =>
             /\ lagrange.op \in {"table", "eval"}
             /\ lagrange'.table = lagrange.table
             /\ lagrange'.denominator = lagrange.denominator
             /\ lagrange'.N = lagrange.N /\ lagrange'.r = lagrange.r
             /\ lagrange'.err = LengthMismatch <=> Len(lagrange'.values) # lagrange.N
             /\ lagrange'.err = LengthMismatch => lagrange'.out = <<>>
             /\ lagrange'.err # LengthMismatch =>
                   (lagrange'.err = NoError /\ Len(lagrange'.out) = 1)
       /\ ret'[1].op = "verify_proof" =>
             /\ EvalLengthOk([k \in 1..TwoNMinusOne(lambda) |-> ZERO], call'[1].zkp)
             /\ \A j \in 1..Len(call'[1].self.u_or_v) :
                   EvalLengthOk([k \in 1..lambda |-> ZERO], call'[1].self.u_or_v[j])
       /\ ret'[1].op = "verify_final_proof" =>
             /\ EvalLengthOk([k \in 1..TwoNPlusOne(lambda) |-> ZERO], call'[1].zkp)
             /\ EvalLengthOk([k \in 1..(lambda + 1) |-> ZERO],
                             <<call'[1].p_or_q_0>> \o call'[1].self.u_or_v[1])
      ]_vars

\* eval has refused an input that is one longer than its table
C13_Witness ==
    /\ lagrange.op = "eval"
    /\ lagrange.err = LengthMismatch
    /\ Len(lagrange.values) = lagrange.N + 1
    /\ Len(lagrange.table) = lagrange.N


---------------------------------------------------------------------------
(* The sharing test fixture: test_fixture/sharing.rs *)

\* Replicated::new(left, right)
Replicated(left, right) == [left |-> left, right |-> right]

\* mutant: the second and third share exchanged
share_SwappedParties(p, input, x1, x2) ==
    LET x3 == FSub(p, input, FAdd(p, x1, x2))
    IN  <<Replicated(x1, x2), Replicated(x3, x1), Replicated(x2, x3)>>

\* share(input, rng), x1 and x2 the two values the rng yields
share(p, input, x1, x2) ==
    LET x3 == FSub(p, input, FAdd(p, x1, x2))
    IN  <<Replicated(x1, x2), Replicated(x2, x3), Replicated(x3, x1)>>

\* MaliciousReplicated::new(x, rx)
MaliciousReplicated(x, rx) == [x |-> x, rx |-> rx]

\* mutant: the second sharing is of r + x
share_malicious_MacOfSum(p, x, r, draws) ==
    LET xs == share(p, x, draws[1], draws[2])
        rxs == share(p, FAdd(p, r, x), draws[3], draws[4])
    IN  [k \in 1..3 |-> MaliciousReplicated(xs[k], rxs[k])]

\* share_malicious(x, r, rng): zip(share(x, rng), share(r * x, rng)), draws
\* the four values the rng yields
share_malicious(p, x, r, draws) ==
    LET xs == share(p, x, draws[1], draws[2])
        rxs == share(p, FMul(p, r, x), draws[3], draws[4])
    IN  [k \in 1..3 |-> MaliciousReplicated(xs[k], rxs[k])]

SumOfLefts(p, s) == FAdd(p, FAdd(p, s[1].left, s[2].left), s[3].left)

SumOfRights(p, s) == FAdd(p, FAdd(p, s[1].right, s[2].right), s[3].right)

\* mutant: only the two sums are compared
ValidatePanics_SumsOnly(p, s) == SumOfLefts(p, s) # SumOfRights(p, s)

\* the four assert_eq! of validate_and_reconstruct: one of them fails
ValidatePanics(p, s) ==
    \/ SumOfLefts(p, s) # SumOfRights(p, s)
    \/ s[1].right # s[2].left
    \/ s[2].right # s[3].left
    \/ s[3].right # s[1].left

\* validate_and_reconstruct(s0, s1, s2): a panic, or the value returned
validate_and_reconstruct(p, s) ==
    IF ValidatePanics(p, s)
    THEN [panic |-> TRUE, value |-> <<>>]
    ELSE [panic |-> FALSE, value |-> <<SumOfLefts(p, s)>>]

\* the loop body of validate_list_of_shares_malicious on one element
validate_malicious(p, expected, m) ==
    LET xs == [k \in 1..3 |-> m[k].x]
        rxs == [k \in 1..3 |-> m[k].rx]
        revealed == validate_and_reconstruct(p, xs)
    IN  revealed.panic \/ revealed.value # <<expected>>
            \/ validate_and_reconstruct(p, rxs).panic


\* the fields the fixture is used with
FixtureFields == {3, Fp5.F}

\* the values the rng yields: any element of the field of 3 elements, three
\* elements of a larger field
Draws(p) == IF p <= 3 THEN Elems(p) ELSE Samples(p)

\* any three Replicated values, valid sharings or not
AnyShares(p) ==
    {<<Replicated(a[1], a[2]), Replicated(a[3], a[4]), Replicated(a[5], a[6])>> :
        a \in SeqsOf(Draws(p), 6)}

Fixture(op, input, r, shares, panic, value) ==
    [op |-> op, input |-> input, r |-> r, shares |-> shares,
     panic |-> panic, value |-> value]

FixtureInit ==
    /\ F \in FixtureFields
    /\ lambda = Fp5.lambda
    /\ pv = <<>> /\ ret = <<>> /\ call = <<>> /\ rounds = <<>>
    /\ prover = NoProver
    /\ lagrange = NoLagrange
    /\ transcript = NoTranscript
    /\ transport = NoTransport
    /\ ToolsIdle
    /\ fixture = Fixture("none", <<>>, <<>>, <<>>, FALSE, <<>>)

\* let shares = share(input, &mut rng)
Share(input, x1, x2) ==
    /\ fixture.op = "none"
    /\ fixture' = Fixture("share", <<input>>, <<>>, share(F, input, x1, x2),
                          FALSE, <<>>)

\* let shares = share_malicious(x, r, &mut rng)
ShareMalicious(x, r, draws) ==
    /\ fixture.op = "none"
    /\ fixture' = Fixture("share_malicious", <<x>>, <<r>>,
                          share_malicious(F, x, r, draws), FALSE, <<>>)

\* validate_and_reconstruct(&s[0], &s[1], &s[2]) on the shares made by
\* share, or on any three Replicated values
ValidateAndReconstruct(s) ==
    /\ fixture.op \in {"none", "share"}
    /\ fixture.op = "share" => s = fixture.shares
    /\ \E res \in {validate_and_reconstruct(F, s)} :
          fixture' = [fixture EXCEPT !.op = "validate_and_reconstruct",
                                     !.shares = s,
                                     !.panic = res.panic, !.value = res.value]

\* validate_list_of_shares_malicious(&[expected], &shares), one element each
ValidateMalicious(expected) ==
    /\ fixture.op = "share_malicious"
    /\ fixture' = [fixture EXCEPT
                      !.op = "validate_list_of_shares_malicious",
                      !.panic = validate_malicious(F, expected, fixture.shares),
                      !.value = <<expected>>]

\* the verifiers, the prover and the other components stay as they are
FixtureOnly ==
    UNCHANGED <<F, lambda, pv, ret, call, rounds, prover,
                lagrange, transcript, transport, generator, bench>>

FixtureNext ==
    \/ /\ fixture.op = "none"
       /\ \E input \in Elems(F), x1 \in Draws(F), x2 \in Draws(F) :
             Share(input, x1, x2)
       /\ FixtureOnly
    \/ /\ fixture.op = "none"
       /\ \E x \in Elems(F), r \in Elems(F), draws \in SeqsOf(Draws(F), 4) :
             ShareMalicious(x, r, draws)
       /\ FixtureOnly
    \/ /\ fixture.op = "none"
       /\ \E s \in AnyShares(F) : ValidateAndReconstruct(s)
       /\ FixtureOnly
    \/ /\ fixture.op = "share"
       /\ ValidateAndReconstruct(fixture.shares)
       /\ FixtureOnly
    \/ /\ fixture.op = "share_malicious"
       /\ \E expected \in Elems(F) : ValidateMalicious(expected)
       /\ FixtureOnly

FixtureSpec == FixtureInit /\ [][FixtureNext]_vars

\* the three Replicated values are a valid sharing of x
ValidSharing(p, s, x) ==
    /\ s[1].right = s[2].left
    /\ s[2].right = s[3].left
    /\ s[3].right = s[1].left
    /\ SumOfLefts(p, s) = x
    /\ SumOfRights(p, s) = x

\* C17: share(input) returns three replicated shares in which party i's right
\* is party i+1's left around the ring and the lefts and the rights each sum
\* to input, and validate_and_reconstruct on them returns input
C17_ShareIsValidSharing ==
    /\ fixture.op = "share" =>
          /\ ValidSharing(F, fixture.shares, fixture.input[1])
          /\ validate_and_reconstruct(F, fixture.shares) =
                [panic |-> FALSE, value |-> fixture.input]
    /\ (fixture.op = "validate_and_reconstruct" /\ fixture.input # <<>>) =>
          (~fixture.panic /\ fixture.value = fixture.input)

\* the shares of a nonzero input were made with two different draws and
\* validated
C17_Witness ==
    /\ fixture.op = "validate_and_reconstruct" /\ fixture.input # <<>>
    /\ fixture.input[1] # ZERO
    /\ fixture.shares[1].left # fixture.shares[1].right
    /\ fixture.shares[3].left # ZERO
    /\ fixture.value = fixture.input

\* C18: validate_and_reconstruct panics if s0.right # s1.left, s1.right #
\* s2.left, s2.right # s0.left or the sums of the lefts and of the rights
\* differ, and otherwise returns the sum of the three left values
C18_ValidatePanicsOrReturnsSum ==
    fixture.op = "validate_and_reconstruct" =>
        LET s == fixture.shares
            invalid == \/ s[1].right # s[2].left
                       \/ s[2].right # s[3].left
                       \/ s[3].right # s[1].left
                       \/ (s[1].left + s[2].left + s[3].left) % F
                             # (s[1].right + s[2].right + s[3].right) % F
        IN  /\ fixture.panic <=> invalid
            /\ fixture.panic => fixture.value = <<>>
            /\ ~fixture.panic =>
                  fixture.value = <<(s[1].left + s[2].left + s[3].left) % F>>

\* three values whose lefts and rights have the same sum and that are no
\* sharing: the call panicked
C18_Witness ==
    /\ fixture.op = "validate_and_reconstruct" /\ fixture.input = <<>>
    /\ SumOfLefts(F, fixture.shares) = SumOfRights(F, fixture.shares)
    /\ fixture.shares[1].right # fixture.shares[2].left
    /\ fixture.panic

\* C19: share_malicious(x, r) returns three shares whose x components are a
\* valid replicated sharing of x and whose rx components are a valid
\* replicated sharing of r * x
C19_MaliciousShares ==
    /\ fixture.op = "share_malicious" =>
          /\ ValidSharing(F, [k \in 1..3 |-> fixture.shares[k].x], fixture.input[1])
          /\ ValidSharing(F, [k \in 1..3 |-> fixture.shares[k].rx],
                          (fixture.r[1] * fixture.input[1]) % F)
    /\ fixture.op = "validate_list_of_shares_malicious" =>
          (fixture.panic <=> fixture.value # fixture.input)

\* shares of a nonzero x with r neither ZERO nor ONE passed the validation
C19_Witness ==
    /\ fixture.op = "validate_list_of_shares_malicious"
    /\ ~fixture.panic
    /\ fixture.input[1] # ZERO
    /\ fixture.r[1] \notin {ZERO, ONE}
    /\ fixture.shares[1].rx # fixture.shares[1].x


---------------------------------------------------------------------------
(* The transport commands: helpers/transport/mod.rs *)

\* TransportCommandData::name() of the commands that carry a callback, and of
\* those that carry none
CallbackCommands == {"CreateQuery", "PrepareQuery", "StartMul"}

PlainCommands == {"Mul", "NetworkEvent"}

\* the query ids and the helper identities of the model
QueryIds == {1, 2, 3}

HelperIds == {1, 2, 3}

\* the unit value ()
Unit == "()"

Ok == [ok |-> TRUE]

\* Error::CallbackFailed { command_name, query_id }
CallbackFailed(command_name, query_id) ==
    [ok |-> FALSE, error |-> "CallbackFailed",
     command_name |-> command_name, query_id |-> query_id]

\* what the callback of a command is sent: (query_id, data) for CreateQuery,
\* () for the other commands
Message(name, query_id, data) ==
    IF name = "CreateQuery" THEN <<query_id, data>> ELSE Unit

\* oneshot::Sender::send(value): the value reaches a receiver that is alive,
\* and comes back as Err(value) if the receiver was dropped
Send(receiver, value) ==
    IF receiver = "alive" THEN [sent |-> TRUE, delivered |-> <<value>>]
    ELSE [sent |-> FALSE, delivered |-> <<>>]

\* mutant: the result of send is discarded and Ok(()) returned
respond_IgnoresSend(cmd, query_id, data) ==
    IF cmd.name \in CallbackCommands
    THEN [result |-> Ok,
          delivered |-> Send(cmd.receiver, Message(cmd.name, query_id, data)).delivered]
    ELSE [result |-> Ok, delivered |-> <<>>]

\* respond(self, query_id, data): self.callback.send(..).map_err(|_|
\* Error::CallbackFailed { command_name: Self::name(), query_id }); Ok(())
\* for the commands without a callback
respond(cmd, query_id, data) ==
    IF cmd.name \in CallbackCommands
    THEN LET sent == Send(cmd.receiver, Message(cmd.name, query_id, data))
         IN  [result |-> IF sent.sent THEN Ok
                         ELSE CallbackFailed(cmd.name, query_id),
              delivered |-> sent.delivered]
    ELSE [result |-> Ok, delivered |-> <<>>]

\* a command: its name, its query_id field (0 for CreateQuery, which has
\* none), the state of the receiver of its callback
Command(name, query_id, receiver) ==
    [name |-> name, query_id |-> query_id, receiver |-> receiver]

Transport(op, cmd, args, result, delivered) ==
    [op |-> op, cmd |-> cmd, args |-> args, result |-> result,
     delivered |-> delivered]

TransportInit ==
    /\ F = Fp5.F
    /\ lambda = Fp5.lambda
    /\ pv = <<>> /\ ret = <<>> /\ call = <<>> /\ rounds = <<>>
    /\ prover = NoProver
    /\ lagrange = NoLagrange
    /\ transcript = NoTranscript
    /\ fixture = NoFixture
    /\ ToolsIdle
    /\ transport = Transport("none", <<>>, <<>>, <<>>, <<>>)

\* CreateQueryData::new, PrepareQueryData::new, StartMulData::new with the
\* sender of a fresh oneshot channel; MulData::new, NetworkEventData::new
NewCommand(name, query_id) ==
    /\ transport.op = "none"
    /\ transport' =
          Transport("new",
                    Command(name,
                            IF name = "CreateQuery" THEN 0 ELSE query_id,
                            IF name \in CallbackCommands THEN "alive" ELSE "absent"),
                    <<>>, <<>>, <<>>)

\* the receiver of the callback is dropped before the command is answered
DropReceiver ==
    /\ transport.op = "new"
    /\ transport.cmd.receiver = "alive"
    /\ transport' = [transport EXCEPT !.op = "dropped", !.cmd.receiver = "dropped"]

\* command.respond(query_id, data): the command is consumed
Respond(query_id, data) ==
    /\ transport.op \in {"new", "dropped"}
    /\ \E res \in {respond(transport.cmd, query_id, data)} :
          transport' = [transport EXCEPT
                           !.op = "respond",
                           !.args = [query_id |-> query_id, data |-> data],
                           !.result = <<res.result>>,
                           !.delivered = transport.delivered \o res.delivered]

TransportOnly ==
    UNCHANGED <<F, lambda, pv, ret, call, rounds, prover,
                lagrange, transcript, fixture, generator, bench>>

TransportNext ==
    \/ /\ \E name \in CallbackCommands \cup PlainCommands, query_id \in QueryIds :
             NewCommand(name, query_id)
       /\ TransportOnly
    \/ /\ DropReceiver
       /\ TransportOnly
    \/ /\ \E query_id \in QueryIds, data \in HelperIds : Respond(query_id, data)
       /\ TransportOnly

TransportSpec == TransportInit /\ [][TransportNext]_vars

\* C20: respond of CreateQuery, PrepareQuery and StartMul delivers the
\* response through the callback and returns Ok if the receiver is alive; if
\* the receiver was dropped it returns CallbackFailed with the command's name
\* and the query id, and nothing is delivered; a command is answered at most
\* once
C20_RespondThroughCallback ==
    /\ Len(transport.delivered) <= 1
    /\ transport.op # "respond" => transport.delivered = <<>>
    /\ (transport.op = "respond" /\ transport.cmd.name \in CallbackCommands) =>
          /\ transport.cmd.receiver = "alive" =>
                /\ transport.result = <<[ok |-> TRUE]>>
                /\ transport.delivered =
                      <<IF transport.cmd.name = "CreateQuery"
                        THEN <<transport.args.query_id, transport.args.data>>
                        ELSE Unit>>
          /\ transport.cmd.receiver = "dropped" =>
                /\ ~transport.result[1].ok
                /\ transport.result[1].error = "CallbackFailed"
                /\ transport.result[1].command_name = transport.cmd.name
                /\ transport.result[1].query_id = transport.args.query_id
                /\ transport.delivered = <<>>
          /\ ~ENABLED Respond(transport.args.query_id, transport.args.data)

\* a PrepareQuery whose receiver was dropped was answered with another query
\* id than its own
C20_Witness ==
    /\ transport.op = "respond"
    /\ transport.cmd.name = "PrepareQuery"
    /\ transport.cmd.receiver = "dropped"
    /\ transport.args.query_id # transport.cmd.query_id
    /\ ~transport.result[1].ok
    /\ transport.result[1].query_id = transport.args.query_id


---------------------------------------------------------------------------
(* The round loop of one verifier: verify_proof applied to its own output
   until one chunk remains, then the final transition.  The transcript
   records the number of chunks the verifier holds after each step. *)

\* the largest number of chunks the loop starts from
MaxLoopChunks == 9

\* the rounds made after one chunk was reached
MaxFurther == 1

Fp7 == [F |-> 7, lambda |-> 3]

LoopConfigs == {Fp5, Fp7}

\* a sequence of k chunks of n elements
LoopInput(p, n, k) ==
    Array([j \in 1..k |-> Array([i \in 1..n |-> (i * j + 1) % p])])

\* the challenges of the loop: a canonical point and another element
LoopChallenges(p) == {ONE, p - 1}

Event(event, chunks) == [event |-> event, chunks |-> chunks]

Last(s) == s[Len(s)]

LoopInit ==
    /\ lagrange = NoLagrange
    /\ fixture = NoFixture
    /\ ToolsIdle
    /\ transport = NoTransport
    /\ prover = NoProver
    /\ \E c \in LoopConfigs : F = c.F /\ lambda = c.lambda
    /\ \E k \in 1..MaxLoopChunks :
          /\ pv = [i \in {1} |-> ProofVerifierNew(LoopInput(F, lambda, k), ZERO)]
          /\ transcript = <<Event("new", k)>>
    /\ ret = [i \in {1} |-> Returned("new", <<>>, <<>>)]
    /\ call = [i \in {1} |-> NoCall]
    /\ rounds = [i \in {1} |-> 0]

\* a round of the loop
LoopRound(zkp, r) ==
    /\ VerifyProof(1, zkp, r)
    /\ transcript' = Append(transcript,
                            Event("verify_proof", Len(pv'[1].u_or_v)))

\* the rounds made after the loop has ended
Further == {k \in DOMAIN transcript : transcript[k].event = "further"}

\* the loop has ended: a round was made and one chunk remains
LoopEnded == rounds[1] >= 1 /\ Len(pv[1].u_or_v) = 1

\* verify_proof applied once more to the one chunk the loop ended with
FurtherRound(zkp, r) ==
    /\ ret[1].op = "verify_proof"
    /\ LoopEnded
    /\ Cardinality(Further) < MaxFurther
    /\ \E res \in {verify_proof(F, lambda, pv[1].u_or_v, pv[1].out_share,
                                zkp, r)} :
          /\ pv' = [pv EXCEPT ![1] = res.pv]
          /\ ret' = [ret EXCEPT ![1] =
                       Returned("verify_proof", <<res.b_share>>, <<>>)]
          /\ transcript' = Append(transcript,
                                  Event("further", Len(res.pv.u_or_v)))
    /\ call' = [call EXCEPT ![1] =
                  [zkp |-> zkp, r |-> r, p_or_q_0 |-> 0, self |-> pv[1]]]
    /\ UNCHANGED <<F, lambda, rounds, prover>>

\* the final transition, made when the loop has ended
LoopFinal(zkp, r, p_or_q_0) ==
    /\ LoopEnded
    /\ VerifyFinalProof(1, zkp, r, p_or_q_0)
    /\ transcript' = Append(transcript,
                            Event("verify_final_proof", Len(pv[1].u_or_v)))

LoopOnly == UNCHANGED <<lagrange, fixture, transport, generator, bench>>

\* some round of the loop
SomeLoopRound ==
    /\ \E zkp \in PatternProofs(F, TwoNMinusOne(lambda)),
          r \in LoopChallenges(F) : LoopRound(zkp, r)
    /\ LoopOnly

LoopNext ==
    \/ SomeLoopRound
    \/ /\ \E zkp \in PatternProofs(F, TwoNMinusOne(lambda)),
             r \in LoopChallenges(F) : FurtherRound(zkp, r)
       /\ LoopOnly
    \/ /\ \E zkp \in PatternProofs(F, TwoNPlusOne(lambda)) :
             LoopFinal(zkp, ONE, ZERO)
       /\ LoopOnly

LoopSpec == LoopInit /\ [][LoopNext]_vars

\* the caller makes the next round of its loop as long as there is one to make
LoopFairSpec == LoopSpec /\ WF_vars(SomeLoopRound)

\* the number of chunks the loop started from
InitialChunks == transcript[1].chunks

\* the rounds of the loop recorded so far
LoopRounds == {k \in DOMAIN transcript : transcript[k].event = "verify_proof"}

\* the least k >= 1 with lambda^k >= n: the logarithm of n to the base
\* lambda, rounded up (and one round for a single chunk)
RoundsNeeded(n) ==
    CHOOSE k \in 1..n : /\ lambda^k >= n
                        /\ \A j \in 1..(k - 1) : lambda^j < n

\* the chunk counts of the transcript: the entry after k rounds is the
\* initial count divided k times by lambda, rounded up; a further round and
\* the final transition leave one chunk; no more rounds are made than the
\* logarithm of the initial count
LoopSizes ==
    /\ Len(pv[1].u_or_v) = Last(transcript).chunks
    /\ \A k \in DOMAIN transcript :
          /\ transcript[k].event = "verify_proof" =>
                /\ transcript[k].chunks = CeilDiv(transcript[k - 1].chunks, lambda)
                /\ transcript[k].chunks = CeilDiv(InitialChunks, lambda^(k - 1))
                /\ k - 1 <= RoundsNeeded(InitialChunks)
                /\ (transcript[k].chunks = 1) <=> (k - 1 = RoundsNeeded(InitialChunks))
          /\ transcript[k].event \in {"further", "verify_final_proof"} =>
                transcript[k].chunks = 1
    /\ rounds[1] = Cardinality(LoopRounds)
    /\ LoopEnded => rounds[1] = RoundsNeeded(InitialChunks)

\* C14: starting from any non-empty chunk sequence, each round of the loop
\* takes the chunk count n to ceil(n / lambda) until exactly one chunk
\* remains; the loop ends, after the logarithm to the base lambda of the
\* initial count (rounded up) rounds; a further round on one chunk keeps one
\* chunk
C14_LoopShrinksAndTerminates == [] LoopSizes /\ <> LoopEnded

\* a loop that started from more than four chunks of two elements has ended
\* after at least three rounds, and a further round was made
C14_Witness ==
    /\ lambda = 2
    /\ InitialChunks > 4
    /\ LoopEnded
    /\ rounds[1] >= 3
    /\ Further # {}
    /\ Last(transcript) = Event("further", 1)


---------------------------------------------------------------------------
(* The orchestration of the round loop: the prover commits the proof of a
   round to the public transcript, the challenge of the round is derived from
   the transcript, and the verifier is run on the two.  The transcript is the
   sequence of what was committed, derived and verified. *)

Committed(round, zkp) == [event |-> "commit", round |-> round, zkp |-> zkp]

Derived(round, r) == [event |-> "challenge", round |-> round, r |-> r]

Ran(op, round, zkp, r) == [event |-> op, round |-> round, zkp |-> zkp, r |-> r]

\* what an entry of the transcript adds to the hash
Digest(e) ==
    IF e.event = "commit" THEN IntSum(e.zkp) + e.round
    ELSE IF e.event = "challenge" THEN e.r + 1
    ELSE e.round

RECURSIVE TranscriptHash(_, _)
\* the public hash of the transcript, an element of the field
TranscriptHash(p, t) ==
    IF t = <<>> THEN ONE
    ELSE (3 * TranscriptHash(p, SubSeq(t, 1, Len(t) - 1)) + Digest(Last(t))) % p

\* the round the loop is in
CurrentRound == rounds[1] + 1

\* the entries of the transcript of an event of a round
EntriesOf(event, round) ==
    {k \in DOMAIN transcript :
        transcript[k].event = event /\ transcript[k].round = round}

\* mutant: the challenge of a round is derived as soon as the round before
\* it is over
ChallengeReady_BeforeCommit(round) == EntriesOf("challenge", round) = {}

\* the challenge of a round is derived once, after the proof of the round
\* was committed
ChallengeReady(round) ==
    /\ EntriesOf("commit", round) # {}
    /\ EntriesOf("challenge", round) = {}

OrchestratedInit ==
    /\ lagrange = NoLagrange
    /\ fixture = NoFixture
    /\ ToolsIdle
    /\ transport = NoTransport
    /\ prover = NoProver
    /\ transcript = NoTranscript
    /\ \E c \in LoopConfigs : F = c.F /\ lambda = c.lambda
    /\ \E k \in 1..MaxLoopChunks :
          pv = [i \in {1} |-> ProofVerifierNew(LoopInput(F, lambda, k), ZERO)]
    /\ ret = [i \in {1} |-> Returned("new", <<>>, <<>>)]
    /\ call = [i \in {1} |-> NoCall]
    /\ rounds = [i \in {1} |-> 0]

\* the prover fixes the proof of the round
Commit(zkp) ==
    /\ Active(1)
    /\ EntriesOf("commit", CurrentRound) = {}
    /\ Len(zkp) = IF LoopEnded THEN TwoNPlusOne(lambda) ELSE TwoNMinusOne(lambda)
    /\ transcript' = Append(transcript, Committed(CurrentRound, zkp))
    /\ UNCHANGED <<F, lambda, pv, ret, call, rounds, prover>>

\* the challenge of the round is derived from the transcript
DeriveChallenge ==
    /\ Active(1)
    /\ ChallengeReady(CurrentRound)
    /\ transcript' = Append(transcript,
                            Derived(CurrentRound, TranscriptHash(F, transcript)))
    /\ UNCHANGED <<F, lambda, pv, ret, call, rounds, prover>>

\* the proof and the challenge of the round, once both are in the transcript
ProofOf(round) ==
    transcript[CHOOSE k \in EntriesOf("commit", round) : TRUE].zkp

ChallengeOf(round) ==
    transcript[CHOOSE k \in EntriesOf("challenge", round) : TRUE].r

\* the verifier runs the round on the committed proof and the derived
\* challenge
OrchestratedRound ==
    /\ ~LoopEnded
    /\ EntriesOf("commit", CurrentRound) # {}
    /\ EntriesOf("challenge", CurrentRound) # {}
    /\ \E zkp \in {ProofOf(CurrentRound)}, r \in {ChallengeOf(CurrentRound)} :
          /\ VerifyProof(1, zkp, r)
          /\ transcript' = Append(transcript,
                                  Ran("verify_proof", CurrentRound, zkp, r))

\* the final transition on the committed proof and the derived challenge
OrchestratedFinal(p_or_q_0) ==
    /\ LoopEnded
    /\ EntriesOf("commit", CurrentRound) # {}
    /\ EntriesOf("challenge", CurrentRound) # {}
    /\ \E zkp \in {ProofOf(CurrentRound)}, r \in {ChallengeOf(CurrentRound)} :
          /\ VerifyFinalProof(1, zkp, r, p_or_q_0)
          /\ transcript' = Append(transcript,
                                  Ran("verify_final_proof", CurrentRound, zkp, r))

OrchestratedNext ==
    \/ /\ \E zkp \in PatternProofs(F, TwoNMinusOne(lambda))
                     \cup PatternProofs(F, TwoNPlusOne(lambda)) : Commit(zkp)
       /\ LoopOnly
    \/ /\ DeriveChallenge
       /\ LoopOnly
    \/ /\ OrchestratedRound
       /\ LoopOnly
    \/ /\ \E p_or_q_0 \in Maskings(F) : OrchestratedFinal(p_or_q_0)
       /\ LoopOnly

OrchestratedSpec == OrchestratedInit /\ [][OrchestratedNext]_vars

\* the entries of the transcript that are runs of the verifier
Runs == {k \in DOMAIN transcript :
            transcript[k].event \in {"verify_proof", "verify_final_proof"}}

---------------------------------------------------------------------------
(* Two independent proof batches, each with a verifier of its own, whose
   rounds are run in any interleaving.  The transcript keeps, for each batch,
   the state it started from and the arguments of its calls. *)

Batches == {1, 2}

\* the chunks batch i starts from
BatchInput(p, n, k, i) ==
    Array([j \in 1..k |-> Array([x \in 1..n |-> (x * j + i) % p])])

\* the (zkp, r) a round is called with
RoundArguments(p, N) ==
    {<<[i \in 1..N |-> (i * i * i + 1) % p], p - 1>>,
     <<[i \in 1..N |-> IF i = 1 THEN ONE ELSE ZERO], ONE>>}

Started(self) == [op |-> "new", self |-> self]

Called(op, zkp, r, p_or_q_0) ==
    [op |-> op, zkp |-> zkp, r |-> r, p_or_q_0 |-> p_or_q_0]

BatchInit ==
    /\ lagrange = NoLagrange
    /\ fixture = NoFixture
    /\ ToolsIdle
    /\ transport = NoTransport
    /\ prover = NoProver
    /\ \E c \in LoopConfigs : F = c.F /\ lambda = c.lambda
    /\ \E k \in [Batches -> 1..MaxChunks] :
          pv = [i \in Batches |->
                  ProofVerifierNew(BatchInput(F, lambda, k[i], i), i - 1)]
    /\ transcript = [i \in Batches |-> <<Started(pv[i])>>]
    /\ ret = [i \in Batches |-> Returned("new", <<>>, <<>>)]
    /\ call = [i \in Batches |-> NoCall]
    /\ rounds = [i \in Batches |-> 0]

\* a round of batch i
BatchRound(i, zkp, r) ==
    /\ VerifyProof(i, zkp, r)
    /\ transcript' = [transcript EXCEPT ![i] =
                        Append(@, Called("verify_proof", zkp, r, 0))]

\* the final transition of batch i
BatchFinal(i, zkp, r, p_or_q_0) ==
    /\ rounds[i] >= 1
    /\ VerifyFinalProof(i, zkp, r, p_or_q_0)
    /\ transcript' = [transcript EXCEPT ![i] =
                        Append(@, Called("verify_final_proof", zkp, r, p_or_q_0))]

BatchNext ==
    \/ /\ \E i \in Batches, a \in RoundArguments(F, TwoNMinusOne(lambda)) :
             BatchRound(i, a[1], a[2])
       /\ LoopOnly
    \/ /\ \E i \in Batches, a \in RoundArguments(F, TwoNPlusOne(lambda)) :
             BatchFinal(i, a[1], a[2], 3)
       /\ LoopOnly

BatchSpec == BatchInit /\ [][BatchNext]_vars

RECURSIVE Alone(_, _, _, _)
\* a batch run alone: the calls of log made one after the other on the
\* state st of a verifier nothing else touches
Alone(p, n, log, st) ==
    IF log = <<>> THEN st
    ELSE LET c == Head(log)
         IN  IF c.op = "verify_proof"
             THEN LET res == verify_proof(p, n, st.pv.u_or_v, st.pv.out_share,
                                          c.zkp, c.r)
                  IN  Alone(p, n, Tail(log),
                            [pv      |-> res.pv,
                             b_share |-> Append(st.b_share, res.b_share),
                             final   |-> st.final])
             ELSE Alone(p, n, Tail(log),
                        [pv      |-> st.pv,
                         b_share |-> st.b_share,
                         final   |-> IF FinalAssertion(st.pv)
                                     THEN verify_final_proof(p, n, st.pv, c.zkp,
                                                             c.r, c.p_or_q_0)
                                     ELSE <<"panic">>])

\* what batch i gives when it is run alone
AloneOf(i) ==
    Alone(F, lambda, Tail(transcript[i]),
          [pv |-> transcript[i][1].self, b_share |-> <<>>, final |-> <<>>])

\* C16: the rounds of two independent batches run in any interleaving give
\* each batch the state, the b_share and the final shares it gets when its
\* own calls are run alone from its own initial state
C16_BatchesDoNotInterfere ==
    \A i \in Batches :
       \E alone \in {AloneOf(i)} :
          /\ pv[i] = alone.pv
          /\ rounds[i] = Len(alone.b_share)
          /\ Verified(i) => ret[i].b_share = <<Last(alone.b_share)>>
          /\ Finalised(i) => ret[i].final = alone.final
          /\ ret[i].op = "panic" <=> alone.final = <<"panic">>

\* both batches have made rounds: one is in the middle of its loop, with
\* more than one chunk left, and the other has made its final transition, the
\* two holding different out_shares
C16_Witness ==
    \E i, j \in Batches :
       /\ i # j
       /\ Verified(i)
       /\ Len(pv[i].u_or_v) > 1
       /\ Finalised(j)
       /\ rounds[j] >= 2
       /\ pv[i].out_share # pv[j].out_share


---------------------------------------------------------------------------
(* The event generator of the test fixture: an iterator that generates a
   batch of events of one match key into in_flight when in_flight is empty and
   pops one event per call of next().  The random number generator is a
   choice among sampled values. *)

\* the events a run of the generator emits at most
MaxEvents == 4

ConversionDistributions ==
    {"Default", "LotsOfConversionsPerImpression", "OnlyImpressions",
     "OnlyConversions"}

\* Config::new: NonZeroU32::try_from(..).unwrap() panics on 0
ConfigAccepted(max_conversion_value, max_breakdown_key, max_convs_per_imp) ==
    /\ max_conversion_value # 0
    /\ max_breakdown_key # 0
    /\ max_convs_per_imp # 0

Config(max_conversion_value, max_breakdown_key, max_convs_per_imp, conversion_distribution) ==
    [max_conversion_value    |-> max_conversion_value,
     max_breakdown_key       |-> max_breakdown_key,
     max_convs_per_imp       |-> max_convs_per_imp,
     conversion_distribution |-> conversion_distribution]

\* the arguments Config::new is called with
ConfigArguments ==
    {<<v, 2, c, d>> : v \in {0, 1, 3}, c \in {1, 2, 3},
                      d \in ConversionDistributions}

\* rng.gen::<u64>(): two of the match keys
MatchKeys == {1, 2}

\* rng.gen_range(0.0..1.0), in hundredths: never 1.0
Rands == {0, 20, 50, 75, 99}

\* rng.gen_range(low..high): the ends of the half-open range; no value when
\* the range is empty (gen_range panics)
GenRange(low, high) == IF low >= high THEN {} ELSE {low, high - 1}

TestConversion(match_key, value) ==
    [kind |-> "TestConversion", match_key |-> match_key, v |-> value]

TestImpression(match_key, breakdown_key) ==
    [kind |-> "TestImpression", match_key |-> match_key, v |-> breakdown_key]

\* gen_conversion: the conversions it can return (none: it panics)
gen_conversion(config, match_key) ==
    {TestConversion(match_key, value) :
        value \in GenRange(1, config.max_conversion_value)}

\* gen_impression: the impressions it can return
gen_impression(config, match_key) ==
    {TestImpression(match_key, breakdown_key) :
        breakdown_key \in GenRange(0, config.max_breakdown_key)}

\* the batch could not be generated: a call of gen_range panicked
BatchPanic == <<[kind |-> "panic", match_key |-> 0, v |-> 0]>>

\* mutant: the loop runs while conv_count <= max_convs_per_imp
LoopGuard_Inclusive(config, conv_count) == conv_count <= config.max_convs_per_imp

\* while conv_count < self.config.max_convs_per_imp.get() && ...
LoopGuard(config, conv_count) == conv_count < config.max_convs_per_imp

RECURSIVE SubsequentConversions(_, _, _, _)
\* the while loop of gen_batch_with_params: what it can push after conv_count
\* conversions
SubsequentConversions(config, match_key, subsequent_conversion_prob, conv_count) ==
    IF ~LoopGuard(config, conv_count) THEN {<<>>}
    ELSE (IF \E rand \in Rands : rand >= subsequent_conversion_prob
          THEN {<<>>} ELSE {})
         \cup
         (IF \E rand \in Rands : rand < subsequent_conversion_prob
          THEN IF gen_conversion(config, match_key) = {} THEN {BatchPanic}
               ELSE {IF rest = BatchPanic THEN BatchPanic ELSE <<conv>> \o rest :
                       conv \in gen_conversion(config, match_key),
                       rest \in SubsequentConversions(config, match_key,
                                   subsequent_conversion_prob, conv_count + 1)}
          ELSE {})

\* mutant: the conversion of a matched batch pushed before its impression
MatchedBatch_ConversionFirst(imp, conv, rest) == <<conv, imp>> \o rest

\* self.in_flight.push(imp); self.in_flight.push(conv); then the loop
MatchedBatch(imp, conv, rest) == <<imp, conv>> \o rest

\* gen_batch_with_params: what is pushed to in_flight, in the order pushed,
\* for a match key and a rand (the probabilities in hundredths)
gen_batch_with_params(config, match_key, rand, unmatched_conversions, unmatched_impressions, subsequent_conversion_prob) ==
    IF rand < unmatched_conversions
    THEN IF gen_conversion(config, match_key) = {} THEN {BatchPanic}
         ELSE {<<conv>> : conv \in gen_conversion(config, match_key)}
    ELSE IF rand < unmatched_conversions + unmatched_impressions
    THEN {<<imp>> : imp \in gen_impression(config, match_key)}
    ELSE IF gen_conversion(config, match_key) = {} THEN {BatchPanic}
    ELSE {IF rest = BatchPanic THEN BatchPanic ELSE MatchedBatch(imp, conv, rest) :
            imp \in gen_impression(config, match_key),
            conv \in gen_conversion(config, match_key),
            rest \in SubsequentConversions(config, match_key,
                                           subsequent_conversion_prob, 1)}

\* mutant: OnlyImpressions and OnlyConversions with the parameters exchanged
BatchParams_Exchanged(conversion_distribution) ==
    CASE conversion_distribution = "OnlyImpressions" -> <<100, 0, 0>>
      [] conversion_distribution = "OnlyConversions" -> <<0, 100, 0>>
      [] conversion_distribution = "Default" -> <<10, 70, 15>>
      [] OTHER -> <<30, 40, 80>>

\* gen_batch: the parameters of each distribution, in hundredths
BatchParams(conversion_distribution) ==
    CASE conversion_distribution = "OnlyImpressions" -> <<0, 100, 0>>
      [] conversion_distribution = "OnlyConversions" -> <<100, 0, 0>>
      [] conversion_distribution = "Default" -> <<10, 70, 15>>
      [] OTHER -> <<30, 40, 80>>

\* gen_batch: the batches it can push
gen_batch(config) ==
    UNION {gen_batch_with_params(config, match_key, rand,
              BatchParams(config.conversion_distribution)[1],
              BatchParams(config.conversion_distribution)[2],
              BatchParams(config.conversion_distribution)[3]) :
           match_key \in MatchKeys, rand \in Rands}


\* EventGenerator: the config, in_flight, and the record of a run: the
\* events next() returned and the batches generated, each in the order pushed
Generator(op, config, in_flight, emitted, batches) ==
    [op |-> op, config |-> config, in_flight |-> in_flight,
     emitted |-> emitted, batches |-> batches]

\* no verifier, prover or other component
NoVerifiers ==
    /\ F = Fp5.F
    /\ lambda = Fp5.lambda
    /\ pv = <<>> /\ ret = <<>> /\ call = <<>> /\ rounds = <<>>
    /\ prover = NoProver
    /\ lagrange = NoLagrange
    /\ transcript = NoTranscript
    /\ fixture = NoFixture
    /\ transport = NoTransport

\* the tools leave the verifiers, the prover and the other components alone
ToolsOnly ==
    UNCHANGED <<F, lambda, pv, ret, call, rounds, prover,
                lagrange, transcript, fixture, transport>>

GeneratorInit ==
    /\ NoVerifiers
    /\ generator = NoGenerator
    /\ bench = NoBench

\* EventGenerator::with_config(rng, Config::new(..)): Config::new panics on
\* an argument that is 0
WithConfig(a) ==
    /\ generator = NoGenerator
    /\ generator' =
          IF ConfigAccepted(a[1], a[2], a[3])
          THEN Generator("with_config", Config(a[1], a[2], a[3], a[4]),
                         <<>>, <<>>, <<>>)
          ELSE Generator("Config::new panic", Config(a[1], a[2], a[3], a[4]),
                         <<>>, <<>>, <<>>)

\* the generator was constructed and no call of it has panicked
Running == generator.op \in {"with_config", "next"}

\* next(): if self.in_flight.is_empty() { self.gen_batch(); }
\* Some(self.in_flight.pop().unwrap())
NextEvent ==
    /\ Running
    /\ Len(generator.emitted) < MaxEvents
    /\ IF generator.in_flight = <<>>
       THEN \E batch \in gen_batch(generator.config) :
               generator' =
                  IF batch = BatchPanic
                  THEN [generator EXCEPT !.op = "gen_range panic"]
                  ELSE Generator("next", generator.config,
                                 SubSeq(batch, 1, Len(batch) - 1),
                                 Append(generator.emitted, Last(batch)),
                                 Append(generator.batches, batch))
       ELSE generator' =
               Generator("next", generator.config,
                         SubSeq(generator.in_flight, 1,
                                Len(generator.in_flight) - 1),
                         Append(generator.emitted, Last(generator.in_flight)),
                         generator.batches)

GeneratorNext ==
    \/ /\ generator = NoGenerator
       /\ \E a \in ConfigArguments : WithConfig(a)
       /\ ToolsOnly /\ UNCHANGED bench
    \/ /\ NextEvent
       /\ ToolsOnly /\ UNCHANGED bench

GeneratorSpec == GeneratorInit /\ [][GeneratorNext]_vars

\* the conversions of a batch
ConversionsOf(batch) ==
    {k \in DOMAIN batch : batch[k].kind = "TestConversion"}

ImpressionsOf(batch) ==
    {k \in DOMAIN batch : batch[k].kind = "TestImpression"}

\* C21: in every batch the generator produces, the conversions generated
\* for one impression are at most max_convs_per_imp, and in_flight never
\* holds more than max_convs_per_imp + 1 events (a batch is the most it
\* holds)
C21_ConversionsPerImpression ==
    generator.op # "none" =>
       /\ \A k \in DOMAIN generator.batches :
             \E batch \in {generator.batches[k]} :
                /\ Cardinality(ConversionsOf(batch))
                      <= generator.config.max_convs_per_imp
                /\ Cardinality(ImpressionsOf(batch)) <= 1
                /\ Len(batch) <= generator.config.max_convs_per_imp + 1
       /\ Len(generator.in_flight) <= generator.config.max_convs_per_imp + 1

\* a batch of an impression with as many conversions as the configuration
\* allows (more than one) was generated
C21_Witness ==
    /\ generator.op = "next"
    /\ generator.config.max_convs_per_imp >= 2
    /\ \E k \in DOMAIN generator.batches :
          /\ ImpressionsOf(generator.batches[k]) # {}
          /\ Cardinality(ConversionsOf(generator.batches[k]))
                = generator.config.max_convs_per_imp

\* C22: with OnlyImpressions every emitted event is an impression, with
\* OnlyConversions every emitted event is a conversion, and in both cases
\* every batch holds exactly one event
C22_OnlyOneKind ==
    (generator.op # "none"
       /\ generator.config.conversion_distribution
             \in {"OnlyImpressions", "OnlyConversions"}) =>
       \E kind \in {IF generator.config.conversion_distribution = "OnlyImpressions"
                    THEN "TestImpression" ELSE "TestConversion"} :
          /\ \A k \in DOMAIN generator.emitted : generator.emitted[k].kind = kind
          /\ \A k \in DOMAIN generator.batches :
                /\ Len(generator.batches[k]) = 1
                /\ generator.batches[k][1].kind = kind
          /\ generator.in_flight = <<>>

\* an OnlyConversions generator has emitted as many events as a run emits
C22_Witness ==
    /\ generator.op = "next"
    /\ generator.config.conversion_distribution = "OnlyConversions"
    /\ Len(generator.emitted) = MaxEvents
    /\ Len(generator.batches) = MaxEvents


\* C23 (as claimed): for every configuration Config::new accepts and every
\* distribution, every call of next() returns an event and never fails; a
\* conversion's value is at most max_conversion_value and an impression's
\* breakdown_key at most max_breakdown_key
C23_EveryNextReturnsAnEvent ==
    (generator.op # "none"
       /\ ConfigAccepted(generator.config.max_conversion_value,
                         generator.config.max_breakdown_key,
                         generator.config.max_convs_per_imp)) =>
       /\ generator.op # "gen_range panic"
       /\ \A k \in DOMAIN generator.emitted :
             \E e \in {generator.emitted[k]} :
                /\ e.kind = "TestConversion" =>
                      e.v <= generator.config.max_conversion_value
                /\ e.kind = "TestImpression" =>
                      e.v <= generator.config.max_breakdown_key

\* the match keys of the batches generated, oldest first
BatchKeys ==
    [k \in DOMAIN generator.batches |-> generator.batches[k][1].match_key]

\* no two batches were given the same match key
DistinctBatchKeys ==
    \A j, k \in DOMAIN generator.batches : j # k => BatchKeys[j] # BatchKeys[k]

\* the events of the batches, each batch in the reverse of the order pushed
ReversedBatches ==
    Flatten([k \in DOMAIN generator.batches |-> Reverse(generator.batches[k])])

\* the events sharing a match key are contiguous in the output
ContiguousKeys ==
    \A i, j, k \in DOMAIN generator.emitted :
       (i < j /\ j < k
          /\ generator.emitted[i].match_key = generator.emitted[k].match_key) =>
          generator.emitted[j].match_key = generator.emitted[i].match_key

---------------------------------------------------------------------------
(* The gen-events command of ipa_bench: the number of events it requests
   from the generator is DEFAULT_EVENT_GEN_COUNT * scale_factor, a
   multiplication of two u32.  A u32 is kept as its four bytes, least
   significant first, so that the product keeps its width. *)

DEFAULT_EVENT_GEN_COUNT == 100000

Byte == 256

\* the four bytes of a number below 2^31
U32(n) == Array([i \in 1..4 |-> (n \div Byte^(i - 1)) % Byte])

\* the sum of the products of the bytes of a and b that fall on byte k
Column(a, b, k) ==
    LET pairs == {i \in 1..Len(a) : k + 1 - i \in 1..Len(b)}
        RECURSIVE Sum(_)
        Sum(S) == IF S = {} THEN 0
                  ELSE LET i == CHOOSE x \in S : TRUE
                       IN  a[i] * b[k + 1 - i] + Sum(S \ {i})
    IN  Sum(pairs)

RECURSIVE Carried(_, _, _, _)
\* the bytes of the product from byte k on, given the carry into byte k
Carried(a, b, k, carry) ==
    IF k > Len(a) + Len(b) THEN <<>>
    ELSE LET t == Column(a, b, k) + carry
         IN  <<t % Byte>> \o Carried(a, b, k + 1, t \div Byte)

\* the eight bytes of the product of two u32
FullProduct(a, b) == Carried(a, b, 1, 0)

\* the product does not fit a u32
Overflows(a, b) == \E k \in 5..8 : FullProduct(a, b)[k] # 0

\* the multiplication panicked
MulPanic == <<>>

\* a * b on u32: with overflow checks (debug builds) an overflow panics,
\* without (release builds) the product wraps to its low 32 bits
U32Mul(build, a, b) ==
    IF build = "debug" /\ Overflows(a, b) THEN MulPanic
    ELSE SubSeq(FullProduct(a, b), 1, 4)

Builds == {"debug", "release"}

\* the values of --scale-factor: any u32, here those of the bytes below
ScaleFactors ==
    {<<b1, b2, b3, b4>> : b1 \in {0, 1, 100, 197, 198, 255},
                          b2 \in {0, 167, 255},
                          b3 \in {0, 1, 255},
                          b4 \in {0, 255}}

Bench(op, build, scale_factor, requested) ==
    [op |-> op, build |-> build, scale_factor |-> scale_factor,
     requested |-> requested]

BenchInit ==
    /\ NoVerifiers
    /\ generator = NoGenerator
    /\ bench = NoBench

\* Args::parse(): the command GenEvents { scale_factor, .. }
Parse(build, scale_factor) ==
    /\ bench = NoBench
    /\ bench' = Bench("GenEvents", build, scale_factor, <<>>)

\* Command::gen_events: generate_events(&sample,
\* DEFAULT_EVENT_GEN_COUNT * scale_factor, epoch, &mut rng, &mut out)
GenEvents ==
    /\ bench.op = "GenEvents"
    /\ \E count \in {U32Mul(bench.build, U32(DEFAULT_EVENT_GEN_COUNT),
                            bench.scale_factor)} :
          bench' = IF count = MulPanic
                   THEN [bench EXCEPT !.op = "overflow panic"]
                   ELSE [bench EXCEPT !.op = "generate_events",
                                      !.requested = count]

BenchNext ==
    \/ /\ bench = NoBench
       /\ \E build \in Builds, scale_factor \in ScaleFactors :
             Parse(build, scale_factor)
       /\ ToolsOnly /\ UNCHANGED generator
    \/ /\ GenEvents
       /\ ToolsOnly /\ UNCHANGED generator

BenchSpec == BenchInit /\ [][BenchNext]_vars

\* the command has run, to its call of generate_events or to a panic
BenchRan == bench.op \in {"generate_events", "overflow panic"}

\* C24 (as claimed): for every scale factor the command accepts, the number
\* of events requested from the generator is 100,000 times the scale factor
\* (scale factor 100 requests 10,000,000 events)
C24_RequestedIsScaled ==
    BenchRan =>
       /\ bench.op = "generate_events"
       /\ bench.requested \o <<0, 0, 0, 0>>
             = FullProduct(U32(DEFAULT_EVENT_GEN_COUNT), bench.scale_factor)
       /\ bench.scale_factor = U32(100) => bench.requested = U32(10000000)


---------------------------------------------------------------------------
(* The out_share a round is run on *)

\* C25 (as claimed): at round 1 the verifier's out_share is F::ZERO
C25_FirstOutShareIsZero ==
    \A i \in Inst :
       (rounds[i] = 0 /\ ret[i].op = "new") => pv[i].out_share = ZERO

\* C25 (amended): a round is run on the out_share the verifier holds: at
\* round 1 the one ProofVerifier::new was given, in every later round the
\* previous round's proof polynomial evaluated at the previous round's
\* challenge, which is also what the round leaves in the new state
C25_OutShareOfRounds ==
    [][\A i \in Inst :
          rounds'[i] = rounds[i] + 1 =>
             /\ call'[i].self.out_share = pv[i].out_share
             /\ rounds[i] >= 1 =>
                   call'[i].self.out_share = PolyAt(F, call[i].zkp, call[i].r)
             /\ pv'[i].out_share = PolyAt(F, call'[i].zkp, call'[i].r)]_vars

\* a second round of the sample proof was run, on an out_share other than
\* zero and other than the one it leaves; the first round was run on 27
C25_Witness ==
    /\ F = Fp31.F
    /\ rounds[1] = 2
    /\ Verified(1)
    /\ call[1].zkp = U_ZKP_2
    /\ call[1].r = R_2
    /\ call[1].self.out_share # ZERO
    /\ pv[1].out_share # call[1].self.out_share


---------------------------------------------------------------------------
(* Three verifiers run side by side on the same challenges: the first two on
   inputs of equal shape, the third on their element-wise sums. *)

\* the element-wise sum of two sequences of field elements
AddSeq(p, a, b) == Array([k \in 1..Len(a) |-> FAdd(p, a[k], b[k])])

\* the element-wise sum of two sequences of chunks
AddChunks(p, A, B) == Array([k \in 1..Len(A) |-> AddSeq(p, A[k], B[k])])

\* the (P, Q) the two are handed in a round
ProofPairs(p, N) ==
    {<<P, Q>> : P \in PatternProofs(p, N),
                Q \in {[i \in 1..N |-> (2 * i + 1) % p],
                       [i \in 1..N |-> IF i = N THEN ONE ELSE ZERO]}}

AdditiveInit ==
    /\ lagrange = NoLagrange
    /\ fixture = NoFixture
    /\ ToolsIdle
    /\ transport = NoTransport
    /\ transcript = NoTranscript
    /\ prover = NoProver
    /\ \E c \in LoopConfigs : F = c.F /\ lambda = c.lambda
    /\ \E k \in 1..MaxChunks, a \in {ZERO, 3}, b \in {ONE, F - 1} :
          \E A \in {LoopInput(F, lambda, k)}, B \in {BatchInput(F, lambda, k, 2)} :
             pv = <<ProofVerifierNew(A, a), ProofVerifierNew(B, b),
                    ProofVerifierNew(AddChunks(F, A, B), FAdd(F, a, b))>>
    /\ ret = [i \in 1..3 |-> Returned("new", <<>>, <<>>)]
    /\ call = [i \in 1..3 |-> NoCall]
    /\ rounds = [i \in 1..3 |-> 0]

\* the proof instance i is handed, of the pair <<P, Q>>
ProofFor(i, pair) ==
    IF i = 1 THEN pair[1] ELSE IF i = 2 THEN pair[2]
    ELSE AddSeq(F, pair[1], pair[2])

\* a round of the three, each by verify_proof on its own state and proof
AdditiveRound(pair, r) ==
    /\ \A i \in 1..3 : Active(i) /\ LoopContinues(i)
    /\ \E res \in {[i \in 1..3 |->
                      verify_proof(F, lambda, pv[i].u_or_v, pv[i].out_share,
                                   ProofFor(i, pair), r)]} :
          /\ pv' = [i \in 1..3 |-> res[i].pv]
          /\ ret' = [i \in 1..3 |->
                       Returned("verify_proof", <<res[i].b_share>>, <<>>)]
    /\ rounds' = [i \in 1..3 |-> rounds[i] + 1]
    /\ call' = [i \in 1..3 |->
                  [zkp |-> ProofFor(i, pair), r |-> r, p_or_q_0 |-> 0,
                   self |-> pv[i]]]
    /\ UNCHANGED <<F, lambda, prover>>

\* the masking value instance i is handed, of the pair <<m1, m2>>
MaskFor(i, masks) ==
    IF i <= 2 THEN masks[i] ELSE FAdd(F, masks[1], masks[2])

\* the final transition of the three
AdditiveFinal(pair, r, masks) ==
    /\ \A i \in 1..3 : Active(i) /\ FinalAssertion(pv[i])
    /\ ret' = [i \in 1..3 |->
                 Returned("verify_final_proof", <<>>,
                          verify_final_proof(F, lambda, pv[i], ProofFor(i, pair),
                                             r, MaskFor(i, masks)))]
    /\ call' = [i \in 1..3 |->
                  [zkp |-> ProofFor(i, pair), r |-> r,
                   p_or_q_0 |-> MaskFor(i, masks), self |-> pv[i]]]
    /\ UNCHANGED <<F, lambda, pv, rounds, prover>>

AdditiveNext ==
    \/ /\ \E pair \in ProofPairs(F, TwoNMinusOne(lambda)),
             r \in Challenges(F) : AdditiveRound(pair, r)
       /\ UNCHANGED others
    \/ /\ \E pair \in ProofPairs(F, TwoNPlusOne(lambda)),
             r \in LoopChallenges(F), masks \in {<<3, F - 1>>, <<ZERO, 2>>} :
             AdditiveFinal(pair, r, masks)
       /\ UNCHANGED others

AdditiveSpec == AdditiveInit /\ [][AdditiveNext]_vars

\* C26: for a fixed challenge, verify_proof on the element-wise sums of two
\* inputs of equal shape gives a b_share, compressed data and out_share that
\* are the element-wise sums of the two separate results, round after round;
\* verify_final_proof on the sums of (chunk, masking value, proof) gives the
\* sums of the two separate pairs of shares
C26_VerifierIsAdditive ==
    DOMAIN pv = 1..3 =>
       /\ pv[3].u_or_v = AddChunks(F, pv[1].u_or_v, pv[2].u_or_v)
       /\ pv[3].out_share = FAdd(F, pv[1].out_share, pv[2].out_share)
       /\ Verified(3) =>
             ret[3].b_share[1] = FAdd(F, ret[1].b_share[1], ret[2].b_share[1])
       /\ Finalised(3) =>
             ret[3].final = AddSeq(F, ret[1].final, ret[2].final)

\* the three made their final transition after two rounds; the shares of
\* the third are the sums of the shares of the other two, which differ
C26_Witness ==
    /\ DOMAIN pv = 1..3
    /\ Finalised(3)
    /\ rounds[3] = 2
    /\ ret[3].final = AddSeq(F, ret[1].final, ret[2].final)
    /\ ret[3].final[1] # ZERO
    /\ ret[1].final # ret[2].final

---------------------------------------------------------------------------
(* Two verifiers handed one round each, on arguments that agree in some
   parts and differ in others: what verify_proof reads for each result *)

\* the two instances compared
Pair == {1, 2}

\* the input chunks an instance is built on
FrameInputs(p, n, k) == {LoopInput(p, n, k), BatchInput(p, n, k, 2)}

\* the first n entries of a proof
FirstEntries(zkp, n) == SubSeq(zkp, 1, n)

\* proofs of 2λ-1 entries: one, the same with its last entry changed, and
\* the same with its first entry changed
FrameProofs(p, n) ==
    LET N == TwoNMinusOne(n)
        base == Array([i \in 1..N |-> (i * i * i + 1) % p])
    IN  {base,
         [base EXCEPT ![N] = FAdd(p, @, ONE)],
         [base EXCEPT ![1] = FAdd(p, @, ONE)]}

FrameInit ==
    /\ OthersIdle
    /\ prover = NoProver
    /\ \E c \in LoopConfigs : F = c.F /\ lambda = c.lambda
    /\ \E k \in 1..MaxChunks :
          \E u \in [Pair -> FrameInputs(F, lambda, k)], o \in [Pair -> {ZERO, 3}] :
             pv = [i \in Pair |-> ProofVerifierNew(u[i], o[i])]
    /\ ret = [i \in Pair |-> Returned("new", <<>>, <<>>)]
    /\ call = [i \in Pair |-> NoCall]
    /\ rounds = [i \in Pair |-> 0]

\* the one round of instance i
FrameRound(i, zkp, r) ==
    /\ rounds[i] = 0
    /\ VerifyProof(i, zkp, r)

FrameNext ==
    /\ \E i \in Pair, zkp \in FrameProofs(F, lambda), r \in Elems(F) :
          FrameRound(i, zkp, r)
    /\ UNCHANGED others

FrameSpec == FrameInit /\ [][FrameNext]_vars

\* both instances of the pair made their round
BothVerified == DOMAIN pv = Pair /\ Verified(1) /\ Verified(2)

\* C27: two calls of verify_proof whose proofs agree on the first λ entries
\* and whose prior out_share agree return the same b_share, whatever their
\* challenges, input chunks and later proof entries; two calls on the same
\* input chunks with the same challenge leave the same compressed data,
\* whatever their proofs and prior out_share
C27_ReadsOfVerifyProof ==
    BothVerified =>
       /\ (/\ FirstEntries(call[1].zkp, lambda) = FirstEntries(call[2].zkp, lambda)
           /\ call[1].self.out_share = call[2].self.out_share)
          => ret[1].b_share = ret[2].b_share
       /\ (/\ call[1].self.u_or_v = call[2].self.u_or_v
           /\ call[1].r = call[2].r)
          => pv[1].u_or_v = pv[2].u_or_v

\* two rounds with different challenges, different input chunks and proofs
\* that differ past the first λ entries returned the same b_share and left
\* different compressed data and different out_share
C27_Witness ==
    /\ BothVerified
    /\ call[1].r # call[2].r
    /\ call[1].self.u_or_v # call[2].self.u_or_v
    /\ call[1].zkp # call[2].zkp
    /\ FirstEntries(call[1].zkp, lambda) = FirstEntries(call[2].zkp, lambda)
    /\ call[1].self.out_share = call[2].self.out_share
    /\ ret[1].b_share = ret[2].b_share
    /\ pv[1].u_or_v # pv[2].u_or_v
    /\ pv[1].out_share # pv[2].out_share

\* the values the stored out_share is replaced by
OtherOutShares(p) == {ZERO, ONE, 2, p - 1}

\* C28: a final transition leaves the verifier state as it was, returns no
\* b_share, and returns the two shares it would return on the same state
\* with its stored out_share replaced by 0, 1, 2 or p-1
C28_FinalIgnoresOutShare ==
    \A i \in DOMAIN pv :
       Finalised(i) =>
          /\ pv[i] = call[i].self
          /\ ret[i].b_share = <<>>
          /\ \A o \in OtherOutShares(F) :
                ret[i].final =
                   verify_final_proof(F, lambda,
                                      [call[i].self EXCEPT !.out_share = o],
                                      call[i].zkp, call[i].r, call[i].p_or_q_0)

\* a final transition was made after a round on a state whose stored
\* out_share is neither zero nor the returned share of g(r)
C28_Witness ==
    /\ Finalised(1)
    /\ rounds[1] >= 1
    /\ pv[1] = call[1].self
    /\ ret[1].b_share = <<>>
    /\ pv[1].out_share # ZERO
    /\ pv[1].out_share # ret[1].final[2]

\* the round instance i made took a challenge that is the canonical point k
AtCanonicalPoint(i, k) == Verified(i) /\ call[i].r = k

\* C29: a round is made on whichever field element is the challenge; when
\* the challenge is a canonical point k < λ every collapsed element is the
\* k-th entry (counted from 0) of its input chunk, and when it is a canonical
\* point k < 2λ-1 the new out_share is the k-th entry of the proof
C29_ChallengeAtCanonicalPoint ==
    \A i \in DOMAIN pv :
       /\ call[i] # NoCall => /\ Verified(i)
                              /\ call[i].r \in Elems(F)
       /\ \A k \in 0..(lambda - 1) :
             AtCanonicalPoint(i, k) =>
                \A j \in 1..Len(call[i].self.u_or_v) :
                   Flatten(pv[i].u_or_v)[j] = call[i].self.u_or_v[j][k + 1]
       /\ \A k \in 0..(TwoNMinusOne(lambda) - 1) :
             AtCanonicalPoint(i, k) => pv[i].out_share = call[i].zkp[k + 1]

\* one round took the canonical point λ-1 on chunks whose entries differ,
\* the other a challenge that is no canonical point of the proof
C29_Witness ==
    /\ BothVerified
    /\ lambda = Fp7.lambda
    /\ AtCanonicalPoint(1, lambda - 1)
    /\ Len(call[1].self.u_or_v) = MaxChunks
    /\ call[1].self.u_or_v[2][1] # call[1].self.u_or_v[2][lambda]
    /\ Flatten(pv[1].u_or_v)[2] = call[1].self.u_or_v[2][lambda]
    /\ pv[1].out_share = call[1].zkp[lambda]
    /\ call[2].r >= TwoNMinusOne(lambda)

====
